---- MODULE Spec2Model ----
(***************************************************************************)
(* A model of the restricted Python evaluator of                           *)
(* src/testing/python_interpreter.py: evaluate walks the top-level       *)
(* statements of a parsed script and evaluate_ast dispatches every node  *)
(* to its handler, threading the variable state and the tool registry.    *)
(*                                                                         *)
(* The handlers are recursive operators that return a record               *)
(*   [v |-> value, st |-> interpreter store, exc |-> raised exception]     *)
(* and the loop of evaluate is the state machine.                        *)
(***************************************************************************)
EXTENDS Integers, Sequences, FiniteSets, TLC

\* ------------------------------------------------------------------------
\* Values of the host language
\* ------------------------------------------------------------------------
NoneV == [t |-> "none"]
BoolV(b) == [t |-> "bool", b |-> b]
IntV(n) == [t |-> "int", n |-> n]
FloatV(num, den) == [t |-> "float", num |-> num, den |-> den]
StrV(s) == [t |-> "str", s |-> s]
TupleV(xs) == [t |-> "tuple", xs |-> xs]
\* a list or a dict is a reference to a mutable object of the store
ListV(a) == [t |-> "list", a |-> a]
DictV(a) == [t |-> "dict", a |-> a]
\* a callable supplied by the host (a tool), named by what it does
HostV(name) == [t |-> "host", name |-> name]
\* a script-defined function: a reference to its closure in the store
FuncV(f) == [t |-> "func", f |-> f]
\* an exception instance
ExcV(cls, msg) == [t |-> "exc", cls |-> cls, msg |-> msg]

\* ------------------------------------------------------------------------
\* Python dict as an insertion-ordered mapping (str keys)
\* ------------------------------------------------------------------------
Has(d, k) == \E i \in 1..Len(d) : d[i].k = k
Get(d, k) == d[CHOOSE i \in 1..Len(d) : d[i].k = k].v
Put(d, k, v) ==
    IF Has(d, k)
    THEN [i \in 1..Len(d) |-> IF d[i].k = k THEN [k |-> k, v |-> v] ELSE d[i]]
    ELSE Append(d, [k |-> k, v |-> v])
Keys(d) == [i \in 1..Len(d) |-> d[i].k]

\* ------------------------------------------------------------------------
\* Exceptions
\* ------------------------------------------------------------------------
NoExc == [cls |-> "", msg |-> ""]
Ok(v, st) == [v |-> v, st |-> st, exc |-> NoExc]
Throw(cls, msg, st) == [v |-> NoneV, st |-> st, exc |-> [cls |-> cls, msg |-> msg]]
Raised(r) == r.exc.cls # ""
\* classes deriving from BaseException but not from Exception
BaseOnly == {"SystemExit", "KeyboardInterrupt"}
IsException(cls) == cls # "" /\ cls \notin BaseOnly
IsInterpretorError(cls) == cls = "InterpretorError"

\* ------------------------------------------------------------------------
\* Text: character order and substring search
\* ------------------------------------------------------------------------
Alphabet ==
    " !#$%&+,-./0123456789:;<=>?@ABCDEFGHIJKLMNOPQRSTUVWXYZ[]^_abcdefghijklmnopqrstuvwxyz{|}~"
Ord(c) == CHOOSE i \in 1..Len(Alphabet) : SubSeq(Alphabet, i, i) = c

RECURSIVE StrLess(_, _)
StrLess(a, b) ==
    IF Len(b) = 0 THEN FALSE
    ELSE IF Len(a) = 0 THEN TRUE
    ELSE IF Head(a) = Head(b) THEN StrLess(Tail(a), Tail(b))
    ELSE Ord(Head(a)) < Ord(Head(b))

Contains(s, sub) ==
    \E i \in 1..(Len(s) - Len(sub) + 1) : SubSeq(s, i, i + Len(sub) - 1) = sub

\* ------------------------------------------------------------------------
\* difflib.get_close_matches(word, possibilities), n = 3, cutoff = 0.6
\* ------------------------------------------------------------------------
RECURSIVE MatchLen(_, _, _, _, _, _)
\* length of the common run of a[i..ahi-1] and b[j..bhi-1] (1-based, half open)
MatchLen(a, i, ahi, b, j, bhi) ==
    IF i < ahi /\ j < bhi /\ SubSeq(a, i, i) = SubSeq(b, j, j)
    THEN 1 + MatchLen(a, i + 1, ahi, b, j + 1, bhi)
    ELSE 0

\* SequenceMatcher.find_longest_match: the longest block, earliest in a, then in b
find_longest_match(a, alo, ahi, b, blo, bhi) ==
    LET P == {<<i, j, MatchLen(a, i, ahi, b, j, bhi)>> :
                    i \in alo..(ahi - 1), j \in blo..(bhi - 1)}
    IN  IF P = {} THEN <<alo, blo, 0>>
        ELSE CHOOSE p \in P :
                \A q \in P :
                    \/ p[3] > q[3]
                    \/ p[3] = q[3] /\ p[1] < q[1]
                    \/ p[3] = q[3] /\ p[1] = q[1] /\ p[2] <= q[2]

RECURSIVE get_matching_blocks(_, _, _, _, _, _)
\* the size of the longest match m and of the blocks to its left and right
MatchCount(m, a, alo, ahi, b, blo, bhi) ==
    IF m[3] = 0 THEN 0
    ELSE m[3] + get_matching_blocks(a, alo, m[1], b, blo, m[2])
              + get_matching_blocks(a, m[1] + m[3], ahi, b, m[2] + m[3], bhi)
\* SequenceMatcher.get_matching_blocks: total size of the matching blocks
get_matching_blocks(a, alo, ahi, b, blo, bhi) ==
    MatchCount(find_longest_match(a, alo, ahi, b, blo, bhi), a, alo, ahi, b, blo, bhi)

\* SequenceMatcher.ratio() = 2.0 * M / T as the pair <<2M, T>> (1.0 when T = 0)
Ratio(a, b) ==
    IF Len(a) + Len(b) = 0 THEN <<1, 1>>
    ELSE <<2 * get_matching_blocks(a, 1, Len(a) + 1, b, 1, Len(b) + 1), Len(a) + Len(b)>>
\* AboveCutoff, were the cutoff 0.5
AboveCutoff_Half(r) == 10 * r[1] >= 5 * r[2]

\* score >= cutoff, the cutoff being 0.6
AboveCutoff(r) == 10 * r[1] >= 6 * r[2]
\* (score, x) tuples are ordered by score and then by the text x
Better(word, x, y) ==
    \E rx \in {Ratio(x, word)}, ry \in {Ratio(y, word)} :
        \/ rx[1] * ry[2] > ry[1] * rx[2]
        \/ rx[1] * ry[2] = ry[1] * rx[2] /\ StrLess(y, x)

RECURSIVE NLargest(_, _, _)
NLargest(n, word, cands) ==
    IF n = 0 \/ cands = {} THEN <<>>
    ELSE LET top == CHOOSE x \in cands : \A y \in cands \ {x} : Better(word, x, y)
         IN  <<top>> \o NLargest(n - 1, word, cands \ {top})
\* get_close_matches, were the best match, among possibilities of the same
\* score, the first of them in the order of possibilities
get_close_matches_FirstBound(word, possibilities) ==
    LET idxs == {j \in 1..Len(possibilities) : AboveCutoff(Ratio(possibilities[j], word))}
        ahead(j, k) ==
            \E rj \in {Ratio(possibilities[j], word)}, rk \in {Ratio(possibilities[k], word)} :
                \/ rj[1] * rk[2] > rk[1] * rj[2]
                \/ rj[1] * rk[2] = rk[1] * rj[2] /\ j <= k
    IN  IF idxs = {} THEN <<>>
        ELSE <<possibilities[CHOOSE j \in idxs : \A k \in idxs : ahead(j, k)]>>

get_close_matches(word, possibilities) ==
    LET cands == {possibilities[i] : i \in
                    {j \in 1..Len(possibilities) : AboveCutoff(Ratio(possibilities[j], word))}}
    IN  NLargest(3, word, cands)

\* ------------------------------------------------------------------------
\* The interpreter's store.  Python passes dicts and lists by reference, so
\* the variable states (one per call of a script function, the first being
\* the state handed to evaluate), the mutable objects and the closures live
\* in tables and values refer to them by index.
\*   envs  : the state dicts (name -> value, insertion ordered)
\*   objs  : the list objects (sequences of values) and dict objects
\*   funcs : the closures made by evaluate_function_def
\*   tools : the tool registry (name -> callable, insertion ordered)
\*   log   : the calls made to host callables, in order (their side effect)
\* ------------------------------------------------------------------------
GlobalEnv == 1
Env(st, e) == st.envs[e]
SetVar(st, e, name, v) == [st EXCEPT !.envs[e] = Put(@, name, v)]
Alloc(st, obj) == [st EXCEPT !.objs = Append(@, obj)]
NewAddr(st) == Len(st.objs) + 1
ListObj(xs) == [t |-> "list", xs |-> xs]
DictObj(kv) == [t |-> "dict", kv |-> kv]

\* ------------------------------------------------------------------------
\* Host semantics of values: truth, text, numbers, equality, order
\* ------------------------------------------------------------------------
IsNum(v) == v.t \in {"bool", "int", "float"}
\* a number as the fraction <<numerator, denominator>>, denominator > 0
Num(v) ==
    CASE v.t = "bool" -> <<IF v.b THEN 1 ELSE 0, 1>>
      [] v.t = "int" -> <<v.n, 1>>
      [] v.t = "float" -> <<v.num, v.den>>

Abs(n) == IF n < 0 THEN -n ELSE n
RECURSIVE Gcd(_, _)
Gcd(a, b) == IF b = 0 THEN a ELSE Gcd(b, a % b)
\* floats are exact fractions; the sign of a zero is not kept (0 / -7 is 0.0)
MkFloat(num, den) ==
    LET g == Gcd(Abs(num), Abs(den))
        sg == IF den < 0 THEN -1 ELSE 1
    IN  FloatV(sg * (num \div g), sg * (den \div g))

\* bool(v)
Truthy(v, st) ==
    CASE v.t = "none" -> FALSE
      [] v.t = "bool" -> v.b
      [] v.t = "int" -> v.n # 0
      [] v.t = "float" -> v.num # 0
      [] v.t = "str" -> Len(v.s) > 0
      [] v.t = "tuple" -> Len(v.xs) > 0
      [] v.t = "list" -> Len(st.objs[v.a].xs) > 0
      [] v.t = "dict" -> Len(st.objs[v.a].kv) > 0
      [] OTHER -> TRUE

\* str(v), as used by f"{e}"
Str(v) ==
    CASE v.t = "none" -> "None"
      [] v.t = "bool" -> IF v.b THEN "True" ELSE "False"
      [] v.t = "int" -> ToString(v.n)
      [] v.t = "str" -> v.s
      [] v.t = "exc" -> v.msg
      [] OTHER -> "<" \o v.t \o ">"

\* the items of a tuple or of a list
IsSeq(v) == v.t \in {"tuple", "list"}
Items(v, st) == IF v.t = "tuple" THEN v.xs ELSE st.objs[v.a].xs

RECURSIVE ValEq(_, _, _)
\* a == b
ValEq(a, b, st) ==
    IF IsNum(a) /\ IsNum(b) THEN Num(a)[1] * Num(b)[2] = Num(b)[1] * Num(a)[2]
    ELSE IF a.t # b.t THEN FALSE
    ELSE CASE a.t = "none" -> TRUE
           [] a.t = "str" -> a.s = b.s
           [] a.t \in {"tuple", "list"} ->
                LET xs == Items(a, st)
                    ys == Items(b, st)
                IN  /\ Len(xs) = Len(ys)
                    /\ \A i \in 1..Len(xs) : ValEq(xs[i], ys[i], st)
           [] a.t = "dict" -> a.a = b.a
           [] a.t = "host" -> a.name = b.name
           [] a.t = "func" -> a.f = b.f
           [] a.t = "exc" -> a.cls = b.cls /\ a.msg = b.msg

\* a is b (identity; small integers are shared objects of the host).  The
\* identity of tuples, texts and floats depends on how the host built them and
\* is left undefined.
ValIs(a, b, st) ==
    IF a.t # b.t THEN FALSE
    ELSE CASE a.t \in {"list", "dict"} -> a.a = b.a
           [] a.t = "bool" -> a.b = b.b
           [] a.t = "int" -> a.n = b.n
           [] a.t \in {"none", "host", "func"} -> ValEq(a, b, st)

\* whether a < b is defined by the host for these operands (the order of
\* two tuples or of two lists is left undefined here)
Orderable(a, b) ==
    CASE IsNum(a) /\ IsNum(b) -> TRUE
      [] a.t = "str" /\ b.t = "str" -> TRUE
      [] ~(IsSeq(a) /\ a.t = b.t) -> FALSE
\* a < b on orderable operands
ValLess(a, b) ==
    IF IsNum(a) THEN Num(a)[1] * Num(b)[2] < Num(b)[1] * Num(a)[2]
    ELSE StrLess(a.s, b.s)

\* whether "a in b" is defined by the host for these operands
HasContains(a, b) == IsSeq(b) \/ (a.t = "str" /\ b.t = "str")
\* a in b
ValIn(a, b, st) ==
    IF IsSeq(b) THEN \E i \in 1..Len(Items(b, st)) : ValEq(a, Items(b, st)[i], st)
    ELSE Contains(b.s, a.s)
\* variant: the quotient is rounded toward zero
FloorDivI_TowardZero(a, b) ==
    IF (a < 0) = (b < 0) THEN Abs(a) \div Abs(b) ELSE -(Abs(a) \div Abs(b))

\* integer floor division and modulo with the sign rules of the host
FloorDivI(a, b) == IF b > 0 THEN a \div b ELSE (-a) \div (-b)
ModI(a, b) == IF b > 0 THEN a % b ELSE -((-a) % (-b))
RECURSIVE PowI(_, _)
PowI(a, n) == IF n = 0 THEN 1 ELSE a * PowI(a, n - 1)

\* ------------------------------------------------------------------------
\* Syntax tree (the node classes of the ast module that the handlers read).
\* Statements carry lineno, which evaluate reads for its messages.
\* ------------------------------------------------------------------------
NoNode == [k |-> "None"]
Constant(v) == [k |-> "Constant", value |-> v]
Name(id) == [k |-> "Name", id |-> id]
Tuple(elts) == [k |-> "Tuple", elts |-> elts]
List(elts) == [k |-> "List", elts |-> elts]
BinOp(left, op, right) == [k |-> "BinOp", left |-> left, op |-> op, right |-> right]
UnaryOp(op, operand) == [k |-> "UnaryOp", op |-> op, operand |-> operand]
BoolOp(op, values) == [k |-> "BoolOp", op |-> op, values |-> values]
Compare(left, ops, comparators) ==
    [k |-> "Compare", left |-> left, ops |-> ops, comparators |-> comparators]
IfExp(test, body, orelse) == [k |-> "IfExp", test |-> test, body |-> body, orelse |-> orelse]
Subscript(value, slice) == [k |-> "Subscript", value |-> value, slice |-> slice]
Attribute(value, attr) == [k |-> "Attribute", value |-> value, attr |-> attr]
Starred(value) == [k |-> "Starred", value |-> value]
Keyword(arg, value) == [arg |-> arg, value |-> value]
Call(func, args, keywords) == [k |-> "Call", func |-> func, args |-> args, keywords |-> keywords]
Assign(lineno, target, value) ==
    [k |-> "Assign", lineno |-> lineno, target |-> target, value |-> value]
Expr(lineno, value) == [k |-> "Expr", lineno |-> lineno, value |-> value]
If(lineno, test, body, orelse) ==
    [k |-> "If", lineno |-> lineno, test |-> test, body |-> body, orelse |-> orelse]
FunctionDef(lineno, name, args, defaults, body) ==
    [k |-> "FunctionDef", lineno |-> lineno, name |-> name, args |-> args,
     defaults |-> defaults, body |-> body]
Return(lineno, value) == [k |-> "Return", lineno |-> lineno, value |-> value]
Raise(lineno, exc) == [k |-> "Raise", lineno |-> lineno, exc |-> exc]
Pass(lineno) == [k |-> "Pass", lineno |-> lineno]
ExceptHandler(type, body) == [type |-> type, body |-> body]
Try(lineno, body, handlers, finalbody) ==
    [k |-> "Try", lineno |-> lineno, body |-> body, handlers |-> handlers,
     finalbody |-> finalbody]
Dict(keys, values) == [k |-> "Dict", keys |-> keys, values |-> values]
For(lineno, target, iter, body) ==
    [k |-> "For", lineno |-> lineno, target |-> target, iter |-> iter, body |-> body]
\* a comprehension carries every for clause the parser found, each with its
\* target, its iterable and its if clauses
comprehension(target, iter, ifs) == [target |-> target, iter |-> iter, ifs |-> ifs]
ListCompOf(elt, generators) == [k |-> "ListComp", elt |-> elt, generators |-> generators]
ListComp(elt, target, iter) == ListCompOf(elt, <<comprehension(target, iter, <<>>)>>)
AugAssign(lineno, target, op, value) ==
    [k |-> "AugAssign", lineno |-> lineno, target |-> target, op |-> op, value |-> value]
\* import a, b / from module import a, b: names are the alias.name of the aliases
Import(lineno, names) == [k |-> "Import", lineno |-> lineno, names |-> names]
ImportFrom(lineno, module, names) ==
    [k |-> "ImportFrom", lineno |-> lineno, module |-> module, names |-> names]
\* assert test[, msg]: msg is NoNode when absent
AssertStmt(lineno, test, msg) == [k |-> "Assert", lineno |-> lineno, test |-> test, msg |-> msg]
\* a node class that evaluate_ast has no branch for (While, Break, Lambda, ...)
Other(lineno, cls) == [k |-> cls, lineno |-> lineno]
NoBranchFor == {"While", "Break", "Continue", "Lambda", "With", "Delete", "Global", "Set"}

\* ------------------------------------------------------------------------
\* Host callables.  What a tool does is the caller's business; the ones
\* used here are the side-effecting tools of the examples, two exception
\* constructors, a tool that fails, and two built-ins of the host.
\* Every invocation is recorded in st.log.
\* ------------------------------------------------------------------------
HostBuiltins == {"len", "print", "ValueError", "SystemExit"}
Logged(st, name, args) == [st EXCEPT !.log = Append(@, [name |-> name, args |-> args])]
HostCall(name, args, kwargs, st) ==
    LET st1 == Logged(st, name, args)
    IN  CASE name = "sideEffectA" -> Ok(BoolV(TRUE), st1)
          [] name = "sideEffectB" -> Ok(IntV(5), st1)
          [] name = "a" -> Ok(IntV(0), st1)
          [] name = "b" -> Ok(StrV("b"), st1)
          [] name = "mark" -> Ok(NoneV, st1)
          [] name = "boom" -> Throw("ValueError", "boom", st1)
          [] name = "print" -> Ok(NoneV, st1)
          [] name = "len" ->
                IF Len(args) = 1 /\ (IsSeq(args[1]) \/ args[1].t = "str")
                THEN Ok(IntV(IF args[1].t = "str" THEN Len(args[1].s)
                                                   ELSE Len(Items(args[1], st))), st1)
                ELSE Throw("TypeError", "len() of unsized object", st1)
          [] name \in {"ValueError", "SystemExit"} ->
                Ok(ExcV(name, IF Len(args) > 0 THEN Str(args[1]) ELSE ""), st1)

\* the modules __import__ finds on the host and the members getattr finds
\* in them (callables of the host)
HostModules == {"math"}
ModuleV(name) == [t |-> "module", name |-> name]
ModuleMembers(name) == IF name = "math" THEN {"floor"} ELSE {}
\* getattr(obj, name): the members of the modelled host types
Members(v) ==
    CASE v.t = "list" -> {"append"}
      [] v.t = "module" -> ModuleMembers(v.name)
      [] OTHER -> {}
MethodV(self, name) == [t |-> "method", self |-> self, name |-> name]
GetAttr(obj, name, st) ==
    IF name \in Members(obj)
    THEN Ok(IF obj.t = "module" THEN HostV(name) ELSE MethodV(obj, name), st)
    ELSE Throw("AttributeError", "object has no attribute '" \o name \o "'", st)
MethodCall(m, args, st) ==
    CASE m.name = "append" /\ Len(args) = 1 ->
            Ok(NoneV, [st EXCEPT !.objs[m.self.a].xs = Append(@, args[1])])
      [] OTHER -> Throw("TypeError", "bad arguments for " \o m.name, st)

\* ------------------------------------------------------------------------
\* Arithmetic of the host on the modelled operand types
\* ------------------------------------------------------------------------
NumV(isFloat, num, den) == IF isFloat THEN MkFloat(num, den) ELSE IntV(num)
Arith(op, l, r, st) ==
    LET a == Num(l)
        b == Num(r)
        fl == l.t = "float" \/ r.t = "float"
        nums == IsNum(l) /\ IsNum(r)
        bad == Throw("TypeError", "unsupported operand type(s) for " \o op, st)
    IN  CASE op = "Add" ->
                IF nums THEN Ok(NumV(fl, a[1] * b[2] + b[1] * a[2], a[2] * b[2]), st)
                ELSE IF l.t = "str" /\ r.t = "str" THEN Ok(StrV(l.s \o r.s), st)
                ELSE IF l.t = "tuple" /\ r.t = "tuple" THEN Ok(TupleV(l.xs \o r.xs), st)
                ELSE IF l.t = "list" /\ r.t = "list"
                     THEN Ok(ListV(NewAddr(st)),
                             Alloc(st, ListObj(Items(l, st) \o Items(r, st))))
                ELSE bad
          [] op = "Sub" ->
                IF nums THEN Ok(NumV(fl, a[1] * b[2] - b[1] * a[2], a[2] * b[2]), st)
                ELSE bad
          [] op = "Mult" /\ (nums \/ ~(IsNum(l) \/ IsNum(r))) ->
                IF nums THEN Ok(NumV(fl, a[1] * b[1], a[2] * b[2]), st) ELSE bad
          [] op = "Div" ->
                IF ~nums THEN bad
                ELSE IF b[1] = 0 THEN Throw("ZeroDivisionError", "division by zero", st)
                ELSE Ok(MkFloat(a[1] * b[2], a[2] * b[1]), st)
          [] op = "FloorDiv" ->
                IF ~nums THEN bad
                ELSE IF b[1] = 0
                     THEN Throw("ZeroDivisionError", "integer division or modulo by zero", st)
                ELSE Ok(NumV(fl, FloorDivI(a[1] * b[2], a[2] * b[1]), 1), st)
          [] op = "Mod" /\ l.t # "str" ->
                IF ~nums THEN bad
                ELSE IF b[1] = 0
                     THEN Throw("ZeroDivisionError", "integer division or modulo by zero", st)
                ELSE LET q == FloorDivI(a[1] * b[2], a[2] * b[1])
                     IN  Ok(NumV(fl, a[1] * b[2] - q * b[1] * a[2], a[2] * b[2]), st)
          [] op = "Pow" /\ (~nums \/ r.t # "float") ->
                IF ~nums THEN bad
                ELSE IF b[1] >= 0
                     THEN Ok(NumV(fl, PowI(a[1], b[1]), PowI(a[2], b[1])), st)
                ELSE IF a[1] = 0
                     THEN Throw("ZeroDivisionError",
                                "0.0 cannot be raised to a negative power", st)
                ELSE Ok(MkFloat(PowI(a[2], -b[1]), PowI(a[1], -b[1])), st)

\* ------------------------------------------------------------------------
\* The handlers
\* ------------------------------------------------------------------------
RECURSIVE evaluate_ast(_, _, _)
RECURSIVE EvalList(_, _, _)
RECURSIVE EvalArgs(_, _, _)
RECURSIVE EvalKeywords(_, _, _)
RECURSIVE ExecStmts(_, _, _)
RECURSIVE ExecTracked(_, _, _, _)
RECURSIVE ExecBody(_, _, _, _)
RECURSIVE CompareLoop(_, _, _, _, _, _)
RECURSIVE BindKwargs(_, _, _, _, _)
RECURSIVE HandlerLoop(_, _, _, _, _)

\* [evaluate_ast(x, state, tools) for x in nodes]
EvalList(nodes, e, st) ==
    IF Len(nodes) = 0 THEN Ok(<<>>, st)
    ELSE LET h == evaluate_ast(Head(nodes), e, st)
         IN  IF Raised(h) THEN h
             ELSE LET rest == EvalList(Tail(nodes), e, h.st)
                  IN  IF Raised(rest) THEN rest ELSE Ok(<<h.v>> \o rest.v, rest.st)

\* for stmt in nodes: evaluate_ast(stmt, state, tools)
ExecStmts(nodes, e, st) ==
    IF Len(nodes) = 0 THEN Ok(NoneV, st)
    ELSE LET h == evaluate_ast(Head(nodes), e, st)
         IN  IF Raised(h) THEN h ELSE ExecStmts(Tail(nodes), e, h.st)

\* the loop of evaluate_if and evaluate_for that keeps the last non-None result
ExecTracked(nodes, e, st, result) ==
    IF Len(nodes) = 0 THEN Ok(result, st)
    ELSE LET h == evaluate_ast(Head(nodes), e, st)
         IN  IF Raised(h) THEN h
             ELSE ExecTracked(Tail(nodes), e, h.st, IF h.v.t # "none" THEN h.v ELSE result)

evaluate_name(name, e, st) ==
    IF Has(Env(st, e), name.id) THEN Ok(Get(Env(st, e), name.id), st)
    ELSE LET close_matches == get_close_matches(name.id, Keys(Env(st, e)))
         IN  IF Len(close_matches) > 0 THEN Ok(Get(Env(st, e), close_matches[1]), st)
             ELSE Throw("InterpretorError",
                        "The variable '" \o name.id \o "' is not defined.", st)

evaluate_binop(binop, e, st) ==
    LET left == evaluate_ast(binop.left, e, st)
    IN  IF Raised(left) THEN left
        ELSE LET right == evaluate_ast(binop.right, e, left.st)
             IN  IF Raised(right) THEN right
                 ELSE IF binop.op \in {"Add", "Sub", "Mult", "Div", "FloorDiv", "Mod", "Pow"}
                      THEN Arith(binop.op, left.v, right.v, right.st)
                      ELSE Throw("InterpretorError",
                                 "Operator " \o binop.op \o " not supported", right.st)

evaluate_unaryop(unaryop, e, st) ==
    LET operand == evaluate_ast(unaryop.operand, e, st)
        v == operand.v
        bad == Throw("TypeError", "bad operand type for unary " \o unaryop.op, operand.st)
    IN  IF Raised(operand) THEN operand
        ELSE CASE unaryop.op = "UAdd" ->
                    IF IsNum(v) THEN Ok(NumV(v.t = "float", Num(v)[1], Num(v)[2]), operand.st)
                    ELSE bad
               [] unaryop.op = "USub" ->
                    IF IsNum(v) THEN Ok(NumV(v.t = "float", -Num(v)[1], Num(v)[2]), operand.st)
                    ELSE bad
               [] unaryop.op = "Not" -> Ok(BoolV(~Truthy(v, operand.st)), operand.st)
               [] unaryop.op = "Invert" ->
                    IF v.t \in {"bool", "int"} THEN Ok(IntV(-Num(v)[1] - 1), operand.st)
                    ELSE bad
               [] OTHER -> Throw("InterpretorError",
                                 "Unary operator " \o unaryop.op \o " not supported",
                                 operand.st)

RECURSIVE ShortCircuit(_, _, _, _, _)
ShortCircuit(values, op, e, st, i) ==
    LET h == evaluate_ast(values[i], e, st)
    IN  IF Raised(h) THEN h
        ELSE IF i = Len(values) \/ (Truthy(h.v, h.st) <=> op = "Or")
        THEN Ok(BoolV(Truthy(h.v, h.st)), h.st)
        ELSE ShortCircuit(values, op, e, h.st, i + 1)
\* evaluate_boolop, were the operands evaluated as the host evaluates and/or
evaluate_boolop_ShortCircuit(boolop, e, st) ==
    ShortCircuit(boolop.values, boolop.op, e, st, 1)
\* variant: every operand is evaluated and the value is the operand that
\* decides, as in the host: the first falsy operand of and, the first truthy
\* operand of or, the last operand otherwise
evaluate_boolop_OperandValue(boolop, e, st) ==
    LET values == EvalList(boolop.values, e, st)
    IN  IF Raised(values) THEN values
        ELSE LET n == Len(values.v)
                 stops(i) == (boolop.op = "Or") = Truthy(values.v[i], values.st)
                 deciding == IF \E i \in 1..n : stops(i)
                             THEN CHOOSE i \in 1..n : stops(i) /\ \A j \in 1..(i - 1) : ~stops(j)
                             ELSE n
             IN  Ok(values.v[deciding], values.st)

evaluate_boolop(boolop, e, st) ==
    LET values == EvalList(boolop.values, e, st)
    IN  IF Raised(values) THEN values
        ELSE CASE boolop.op = "And" ->
                    Ok(BoolV(\A i \in 1..Len(values.v) : Truthy(values.v[i], values.st)),
                       values.st)
               [] boolop.op = "Or" ->
                    Ok(BoolV(\E i \in 1..Len(values.v) : Truthy(values.v[i], values.st)),
                       values.st)
               [] OTHER -> Throw("InterpretorError",
                                 "Boolean operator " \o boolop.op \o " not supported",
                                 values.st)

\* one step of the if-chain of evaluate_compare
CompareOp(op, left, right, st) ==
    LET unordered == Throw("TypeError", "ordering not supported between these operands", st)
        uniterable == Throw("TypeError", "argument is not iterable", st)
    IN  CASE op = "Eq" -> Ok(BoolV(ValEq(left, right, st)), st)
          [] op = "NotEq" -> Ok(BoolV(~ValEq(left, right, st)), st)
          [] op = "Lt" -> IF Orderable(left, right) THEN Ok(BoolV(ValLess(left, right)), st)
                          ELSE unordered
          [] op = "LtE" -> IF Orderable(left, right) THEN Ok(BoolV(~ValLess(right, left)), st)
                           ELSE unordered
          [] op = "Gt" -> IF Orderable(left, right) THEN Ok(BoolV(ValLess(right, left)), st)
                          ELSE unordered
          [] op = "GtE" -> IF Orderable(left, right) THEN Ok(BoolV(~ValLess(left, right)), st)
                           ELSE unordered
          [] op = "In" -> IF HasContains(left, right) THEN Ok(BoolV(ValIn(left, right, st)), st)
                          ELSE uniterable
          [] op = "NotIn" -> IF HasContains(left, right)
                             THEN Ok(BoolV(~ValIn(left, right, st)), st)
                             ELSE uniterable
          [] op = "Is" -> Ok(BoolV(ValIs(left, right, st)), st)
          [] op = "IsNot" -> Ok(BoolV(~ValIs(left, right, st)), st)
          [] OTHER -> Throw("InterpretorError",
                            "Comparison operator " \o op \o " not supported", st)

\* for op, right in zip(compare.ops, compare.comparators): ...; all(results)
CompareLoop(ops, comparators, left, results, e, st) ==
    IF Len(ops) = 0 \/ Len(comparators) = 0
    THEN Ok(BoolV(\A i \in 1..Len(results) : Truthy(results[i], st)), st)
    ELSE LET right == evaluate_ast(Head(comparators), e, st)
         IN  IF Raised(right) THEN right
             ELSE LET c == CompareOp(Head(ops), left, right.v, right.st)
                  IN  IF Raised(c) THEN c
                      ELSE CompareLoop(Tail(ops), Tail(comparators), right.v,
                                       Append(results, c.v), e, c.st)

\* evaluate_compare, were only the first operator looked at
evaluate_compare_FirstPair(compare, e, st) ==
    LET left == evaluate_ast(compare.left, e, st)
    IN  IF Raised(left) THEN left
        ELSE CompareLoop(<<compare.ops[1]>>, <<compare.comparators[1]>>, left.v, <<>>, e,
                         left.st)

evaluate_compare(compare, e, st) ==
    LET left == evaluate_ast(compare.left, e, st)
    IN  IF Raised(left) THEN left
        ELSE CompareLoop(compare.ops, compare.comparators, left.v, <<>>, e, left.st)

evaluate_ifexp(ifexp, e, st) ==
    LET condition == evaluate_ast(ifexp.test, e, st)
    IN  IF Raised(condition) THEN condition
        ELSE IF Truthy(condition.v, condition.st)
             THEN evaluate_ast(ifexp.body, e, condition.st)
             ELSE evaluate_ast(ifexp.orelse, e, condition.st)

evaluate_attribute(attribute, e, st) ==
    LET obj == evaluate_ast(attribute.value, e, st)
    IN  IF Raised(obj) THEN obj ELSE GetAttr(obj.v, attribute.attr, obj.st)

\* ConditionOp, were the branch of <= a copy of the branch of <
ConditionOp_LtECopied(comparator, left, right, st) ==
    CompareOp(IF comparator = "LtE" THEN "Lt" ELSE comparator, left, right, st)

\* one step of the if-chain of evaluate_condition
ConditionOp(comparator, left, right, st) ==
    LET unordered == Throw("TypeError", "ordering not supported between these operands", st)
        uniterable == Throw("TypeError", "argument is not iterable", st)
    IN  CASE comparator = "Eq" -> Ok(BoolV(ValEq(left, right, st)), st)
          [] comparator = "NotEq" -> Ok(BoolV(~ValEq(left, right, st)), st)
          [] comparator = "Lt" ->
                IF Orderable(left, right) THEN Ok(BoolV(ValLess(left, right)), st)
                ELSE unordered
          [] comparator = "LtE" ->
                IF Orderable(left, right) THEN Ok(BoolV(~ValLess(right, left)), st)
                ELSE unordered
          [] comparator = "Gt" ->
                IF Orderable(left, right) THEN Ok(BoolV(ValLess(right, left)), st)
                ELSE unordered
          [] comparator = "GtE" ->
                IF Orderable(left, right) THEN Ok(BoolV(~ValLess(left, right)), st)
                ELSE unordered
          [] comparator = "Is" -> Ok(BoolV(ValIs(left, right, st)), st)
          [] comparator = "IsNot" -> Ok(BoolV(~ValIs(left, right, st)), st)
          [] comparator = "In" ->
                IF HasContains(left, right) THEN Ok(BoolV(ValIn(left, right, st)), st)
                ELSE uniterable
          [] comparator = "NotIn" ->
                IF HasContains(left, right) THEN Ok(BoolV(~ValIn(left, right, st)), st)
                ELSE uniterable
          [] OTHER -> Throw("InterpretorError", "Operator not supported: " \o comparator, st)

evaluate_condition(condition, e, st) ==
    IF condition.k = "Compare"
    THEN IF Len(condition.ops) > 1
         THEN Throw("InterpretorError",
                    "Cannot evaluate conditions with multiple operators", st)
         ELSE LET left == evaluate_ast(condition.left, e, st)
              IN  IF Raised(left) THEN left
                  ELSE LET right == evaluate_ast(condition.comparators[1], e, left.st)
                       IN  IF Raised(right) THEN right
                           ELSE ConditionOp(condition.ops[1], left.v, right.v, right.st)
    ELSE IF condition.k = "UnaryOp" /\ condition.op = "Not"
    THEN LET operand == evaluate_ast(condition.operand, e, st)
         IN  IF Raised(operand) THEN operand
             ELSE Ok(BoolV(~Truthy(operand.v, operand.st)), operand.st)
    ELSE LET c == evaluate_ast(condition, e, st)
         IN  IF Raised(c) THEN c ELSE Ok(BoolV(Truthy(c.v, c.st)), c.st)

evaluate_if(if_statement, e, st) ==
    LET c == evaluate_condition(if_statement.test, e, st)
    IN  IF Raised(c) THEN c
        ELSE IF Truthy(c.v, c.st)
             THEN ExecTracked(if_statement.body, e, c.st, NoneV)
             ELSE ExecTracked(if_statement.orelse, e, c.st, NoneV)

\* "if __name__ == '__main__'" as evaluate_ast recognises it
IsMainGuard(test) ==
    /\ test.k = "Compare"
    /\ test.left.k = "Name"
    /\ test.left.id = "__name__"
    /\ test.comparators[1].k = "Constant"
    /\ test.comparators[1].value = StrV("__main__")

RECURSIVE PutAll(_, _, _, _)
\* for name, v in zip(names, vals): env[name] = v (only where absent, if onlyMissing)
PutAll(env, names, vals, onlyMissing) ==
    IF Len(names) = 0 \/ Len(vals) = 0 THEN env
    ELSE PutAll(IF onlyMissing /\ Has(env, Head(names)) THEN env
                ELSE Put(env, Head(names), Head(vals)),
                Tail(names), Tail(vals), onlyMissing)

\* obj[index] = value on a dict or a list of the store
DictPut(kv, key, v, st) ==
    IF \E i \in 1..Len(kv) : ValEq(kv[i].k, key, st)
    THEN [i \in 1..Len(kv) |-> IF ValEq(kv[i].k, key, st) THEN [k |-> kv[i].k, v |-> v]
                                                          ELSE kv[i]]
    ELSE Append(kv, [k |-> key, v |-> v])
SetItem(obj, index, v, st) ==
    CASE obj.t = "dict" /\ index.t \notin {"list", "dict"} ->
            Ok(NoneV, [st EXCEPT !.objs[obj.a].kv = DictPut(@, index, v, st)])
      [] obj.t = "dict" /\ index.t \in {"list", "dict"} ->
            Throw("TypeError", "unhashable type", st)
      [] obj.t = "list" /\ index.t \in {"int", "bool"} ->
            LET n == Len(st.objs[obj.a].xs)
                i == Num(index)[1]
                pos == IF i < 0 THEN i + n + 1 ELSE i + 1
            IN  IF pos >= 1 /\ pos <= n
                THEN Ok(NoneV, [st EXCEPT !.objs[obj.a].xs[pos] = v])
                ELSE Throw("IndexError", "list assignment index out of range", st)
      [] obj.t = "list" /\ index.t \notin {"int", "bool"} ->
            Throw("TypeError", "list indices must be integers or slices", st)
      [] OTHER -> Throw("TypeError", "object does not support item assignment", st)
\* evaluate_assign, were the names of a tuple target bound pairwise without
\* comparing the lengths first
evaluate_assign_Zip(assign, e, st) ==
    LET result == evaluate_ast(assign.value, e, st)
        target == assign.target
    IN  IF Raised(result) THEN result
        ELSE IF target.k = "Tuple" /\ IsSeq(result.v)
        THEN LET var_names == [i \in 1..Len(target.elts) |-> target.elts[i].id]
                 items == Items(result.v, result.st)
             IN  Ok(result.v, [result.st EXCEPT !.envs[e] =
                                   PutAll(@, var_names, items, FALSE)])
        ELSE IF target.k = "Name"
        THEN Ok(result.v, SetVar(result.st, e, target.id, result.v))
        ELSE IF target.k = "Subscript"
        THEN LET var_name == target.value.id
                 index == evaluate_ast(target.slice, e, result.st)
             IN  IF Raised(index) THEN index
                 ELSE LET st1 == IF Has(Env(index.st, e), var_name) THEN index.st
                                 ELSE SetVar(Alloc(index.st, DictObj(<<>>)), e, var_name,
                                             DictV(NewAddr(index.st)))
                          set == SetItem(Get(Env(st1, e), var_name), index.v, result.v, st1)
                      IN  IF Raised(set) THEN set ELSE Ok(result.v, set.st)
        ELSE Throw("InterpretorError", "Unsupported target type: " \o target.k, result.st)

evaluate_assign(assign, e, st) ==
    LET result == evaluate_ast(assign.value, e, st)
        target == assign.target
    IN  IF Raised(result) THEN result
        ELSE IF target.k = "Tuple" /\ IsSeq(result.v)
        THEN LET var_names == [i \in 1..Len(target.elts) |-> target.elts[i].id]
                 items == Items(result.v, result.st)
             IN  IF Len(items) # Len(var_names)
                 THEN Throw("InterpretorError",
                            "Expected " \o ToString(Len(var_names)) \o " values but got "
                                \o ToString(Len(items)) \o ".", result.st)
                 ELSE Ok(result.v, [result.st EXCEPT !.envs[e] =
                                        PutAll(@, var_names, items, FALSE)])
        ELSE IF target.k = "Name"
        THEN Ok(result.v, SetVar(result.st, e, target.id, result.v))
        ELSE IF target.k = "Subscript"
        THEN LET var_name == target.value.id
                 index == evaluate_ast(target.slice, e, result.st)
             IN  IF Raised(index) THEN index
                 ELSE LET st1 == IF Has(Env(index.st, e), var_name) THEN index.st
                                 ELSE SetVar(Alloc(index.st, DictObj(<<>>)), e, var_name,
                                             DictV(NewAddr(index.st)))
                          set == SetItem(Get(Env(st1, e), var_name), index.v, result.v, st1)
                      IN  IF Raised(set) THEN set ELSE Ok(result.v, set.st)
        ELSE Throw("InterpretorError", "Unsupported target type: " \o target.k, result.st)
\* evaluate_assert, were the message of the statement never evaluated
evaluate_assert_NoMessage(assert_statement, e, st) ==
    LET condition == evaluate_ast(assert_statement.test, e, st)
    IN  IF Raised(condition) THEN condition
        ELSE IF Truthy(condition.v, condition.st) THEN Ok(NoneV, condition.st)
        ELSE Throw("AssertionError", "Assertion failed", condition.st)

evaluate_assert(assert_statement, e, st) ==
    LET condition == evaluate_ast(assert_statement.test, e, st)
    IN  IF Raised(condition) THEN condition
        ELSE IF Truthy(condition.v, condition.st) THEN Ok(NoneV, condition.st)
        ELSE IF assert_statement.msg.k # "None"
        THEN LET msg == evaluate_ast(assert_statement.msg, e, condition.st)
             IN  IF Raised(msg) THEN msg ELSE Throw("AssertionError", Str(msg.v), msg.st)
        ELSE Throw("AssertionError", "Assertion failed", condition.st)

evaluate_return(return_statement, e, st) ==
    IF return_statement.value.k # "None"
    THEN evaluate_ast(return_statement.value, e, st)
    ELSE Ok(NoneV, st)

evaluate_raise(raise_expr, e, st) ==
    IF raise_expr.exc.k # "None"
    THEN LET exception == evaluate_ast(raise_expr.exc, e, st)
         IN  IF Raised(exception) THEN exception
             ELSE IF exception.v.t = "exc"
                  THEN Throw(exception.v.cls, exception.v.msg, exception.st)
                  ELSE Throw("InterpretorError", Str(exception.v), exception.st)
    ELSE Throw("InterpretorError",
               "Raise statement without an exception is not supported.", st)
\* evaluate_function_def, were the function bound in the state only
evaluate_function_def_StateOnly(function_def, e, st) ==
    LET func_name == function_def.name
        parameters == function_def.args
        defaults == EvalList(function_def.defaults, e, st)
    IN  IF Raised(defaults) THEN defaults
        ELSE LET closure == [name |-> func_name, parameters |-> parameters,
                             defaults |-> defaults.v, body |-> function_def.body,
                             state |-> e]
                 func == FuncV(Len(defaults.st.funcs) + 1)
                 st1 == [defaults.st EXCEPT !.funcs = Append(@, closure)]
             IN  Ok(NoneV, SetVar(st1, e, func_name, func))
\* variant: a definition met inside a call is bound in the state of the call
\* and not added to the registry
evaluate_function_def_TopLevelRegistry(function_def, e, st) ==
    LET func_name == function_def.name
        parameters == function_def.args
        defaults == EvalList(function_def.defaults, e, st)
    IN  IF Raised(defaults) THEN defaults
        ELSE LET closure == [name |-> func_name, parameters |-> parameters,
                             defaults |-> defaults.v, body |-> function_def.body,
                             state |-> e]
                 func == FuncV(Len(defaults.st.funcs) + 1)
                 st1 == [defaults.st EXCEPT !.funcs = Append(@, closure)]
                 st2 == SetVar(st1, e, func_name, func)
             IN  Ok(NoneV, IF e = GlobalEnv THEN [st2 EXCEPT !.tools = Put(@, func_name, func)]
                           ELSE st2)

\* ------------------------------------------------------------------------
\* Functions and calls
\* ------------------------------------------------------------------------
evaluate_function_def(function_def, e, st) ==
    LET func_name == function_def.name
        parameters == function_def.args
        defaults == EvalList(function_def.defaults, e, st)
    IN  IF Raised(defaults) THEN defaults
        ELSE LET closure == [name |-> func_name, parameters |-> parameters,
                             defaults |-> defaults.v, body |-> function_def.body,
                             state |-> e]
                 func == FuncV(Len(defaults.st.funcs) + 1)
                 st1 == [defaults.st EXCEPT !.funcs = Append(@, closure)]
                 st2 == SetVar(st1, e, func_name, func)
             IN  Ok(NoneV, [st2 EXCEPT !.tools = Put(@, func_name, func)])

\* for node in body: result = evaluate_ast(node, local_state, tools)
ExecBody(nodes, e, st, result) ==
    IF Len(nodes) = 0 THEN Ok(result, st)
    ELSE LET h == evaluate_ast(Head(nodes), e, st)
         IN  IF Raised(h) THEN h ELSE ExecBody(Tail(nodes), e, h.st, h.v)

\* for param, arg in kwargs.items(): ...
BindKwargs(kwargs, c, le, st, i) ==
    IF i > Len(kwargs) THEN Ok(NoneV, st)
    ELSE IF \A j \in 1..Len(c.parameters) : c.parameters[j] # kwargs[i].k
         THEN Throw("InterpretorError",
                    "Invalid keyword argument " \o kwargs[i].k \o " for function "
                        \o c.name \o ".", st)
         ELSE BindKwargs(kwargs, c, le, SetVar(st, le, kwargs[i].k, kwargs[i].v), i + 1)
\* CallFunc, were the local state a copy of the state evaluate was given
\* and not of the state that evaluated the definition
CallFunc_RootState(f, args, kwargs, st) ==
    LET c == st.funcs[f]
        le == Len(st.envs) + 1
        st0 == [st EXCEPT !.envs = Append(@, st.envs[GlobalEnv])]
        np == Len(c.parameters)
        nd == Len(c.defaults)
    IN  IF Len(args) + Len(kwargs) < np - nd \/ Len(args) > np
        THEN Throw("InterpretorError",
                   "Invalid number of arguments for function " \o c.name \o ".", st0)
        ELSE LET st1 == [st0 EXCEPT !.envs[le] = PutAll(@, c.parameters, args, FALSE)]
                 kw == BindKwargs(kwargs, c, le, st1, 1)
             IN  IF Raised(kw) THEN kw
                 ELSE LET tail == IF nd = 0 THEN c.parameters
                                  ELSE SubSeq(c.parameters, np - nd + 1, np)
                          st2 == [kw.st EXCEPT !.envs[le] =
                                      PutAll(@, tail, c.defaults, TRUE)]
                      IN  ExecBody(c.body, le, st2, NoneV)

\* the body of func(*args, **kwargs), the closure made by evaluate_function_def
CallFunc(f, args, kwargs, st) ==
    LET c == st.funcs[f]
        le == Len(st.envs) + 1
        \* local_state = state.copy()
        st0 == [st EXCEPT !.envs = Append(@, st.envs[c.state])]
        np == Len(c.parameters)
        nd == Len(c.defaults)
    IN  IF Len(args) + Len(kwargs) < np - nd \/ Len(args) > np
        THEN Throw("InterpretorError",
                   "Invalid number of arguments for function " \o c.name \o ".", st0)
        ELSE LET st1 == [st0 EXCEPT !.envs[le] = PutAll(@, c.parameters, args, FALSE)]
                 kw == BindKwargs(kwargs, c, le, st1, 1)
             IN  IF Raised(kw) THEN kw
                 ELSE LET tail == IF nd = 0 THEN c.parameters
                                  ELSE SubSeq(c.parameters, np - nd + 1, np)
                          st2 == [kw.st EXCEPT !.envs[le] =
                                      PutAll(@, tail, c.defaults, TRUE)]
                      IN  ExecBody(c.body, le, st2, NoneV)

\* method(*args, **kwargs)
Invoke(method, args, kwargs, st) ==
    CASE method.t = "host" -> HostCall(method.name, args, kwargs, st)
      [] method.t = "func" -> CallFunc(method.f, args, kwargs, st)
      [] method.t = "method" -> MethodCall(method, args, st)
      [] OTHER -> Throw("TypeError", "object is not callable", st)

EvalArgs(args, e, st) ==
    IF Len(args) = 0 THEN Ok(<<>>, st)
    ELSE LET arg == Head(args)
             h == evaluate_ast(IF arg.k = "Starred" THEN arg.value ELSE arg, e, st)
         IN  IF Raised(h) THEN h
             ELSE IF arg.k = "Starred" /\ ~IsSeq(h.v)
             THEN Throw("TypeError", "argument after * must be an iterable", h.st)
             ELSE LET rest == EvalArgs(Tail(args), e, h.st)
                      these == IF arg.k = "Starred" THEN Items(h.v, h.st) ELSE <<h.v>>
                  IN  IF Raised(rest) THEN rest ELSE Ok(these \o rest.v, rest.st)

EvalKeywords(keywords, e, st) ==
    IF Len(keywords) = 0 THEN Ok(<<>>, st)
    ELSE LET h == evaluate_ast(Head(keywords).value, e, st)
         IN  IF Raised(h) THEN h
             ELSE LET rest == EvalKeywords(Tail(keywords), e, h.st)
                  IN  IF Raised(rest) THEN rest
                      ELSE Ok(<<[k |-> Head(keywords).arg, v |-> h.v]>> \o rest.v, rest.st)
\* CallTarget, were a name missing from the registry looked up in the state
CallTarget_StateFallback(call, e, st) ==
    IF call.func.k = "Attribute"
    THEN LET obj == evaluate_ast(call.func.value, e, st)
         IN  IF Raised(obj) THEN obj ELSE GetAttr(obj.v, call.func.attr, obj.st)
    ELSE IF call.func.k = "Name"
    THEN IF Has(st.tools, call.func.id) THEN Ok(Get(st.tools, call.func.id), st)
         ELSE IF Has(Env(st, e), call.func.id)
                   /\ Get(Env(st, e), call.func.id).t \in {"host", "func", "method"}
         THEN Ok(Get(Env(st, e), call.func.id), st)
         ELSE Throw("InterpretorError",
                    "It is not permitted to evaluate other functions than the provided tools (tried to execute "
                        \o call.func.id \o ").", st)
    ELSE Throw("InterpretorError",
               "It is not permitted to evaluate other functions than the provided tools (tried to execute "
                   \o call.func.k \o ").", st)

\* CallTarget, were a name missing from the registry looked up among the
\* built-ins of the host
CallTarget_HostFallback(call, e, st) ==
    IF call.func.k = "Name" /\ ~Has(st.tools, call.func.id)
    THEN IF call.func.id \in HostBuiltins THEN Ok(HostV(call.func.id), st)
         ELSE Throw("InterpretorError",
                    "It is not permitted to evaluate other functions than the provided tools (tried to execute "
                        \o call.func.id \o ").", st)
    ELSE IF call.func.k = "Name" THEN Ok(Get(st.tools, call.func.id), st)
    ELSE Throw("InterpretorError", "It is not permitted to evaluate other functions", st)

\* the resolution of the call target in evaluate_call
CallTarget(call, e, st) ==
    IF call.func.k = "Attribute"
    THEN LET obj == evaluate_ast(call.func.value, e, st)
         IN  IF Raised(obj) THEN obj ELSE GetAttr(obj.v, call.func.attr, obj.st)
    ELSE IF call.func.k = "Name"
    THEN IF ~Has(st.tools, call.func.id)
         THEN Throw("InterpretorError",
                    "It is not permitted to evaluate other functions than the provided tools (tried to execute "
                        \o call.func.id \o ").", st)
         ELSE Ok(Get(st.tools, call.func.id), st)
    ELSE Throw("InterpretorError",
               "It is not permitted to evaluate other functions than the provided tools (tried to execute "
                   \o call.func.k \o ").", st)

evaluate_call(call, e, st) ==
    LET method == CallTarget(call, e, st)
    IN  IF Raised(method) THEN method
        ELSE LET args == EvalArgs(call.args, e, method.st)
             IN  IF Raised(args) THEN args
                 ELSE LET kwargs == EvalKeywords(call.keywords, e, args.st)
                      IN  IF Raised(kwargs) THEN kwargs
                          ELSE Invoke(method.v, args.v, kwargs.v, kwargs.st)

\* ------------------------------------------------------------------------
\* Imports
\* ------------------------------------------------------------------------
RECURSIVE ImportLoop(_, _, _)
\* for alias in import_node.names: state[alias.name] = __import__(alias.name)
ImportLoop(names, e, st) ==
    IF Len(names) = 0 THEN Ok(NoneV, st)
    ELSE IF Head(names) \notin HostModules
    THEN Throw("ModuleNotFoundError", "No module named '" \o Head(names) \o "'", st)
    ELSE ImportLoop(Tail(names), e, SetVar(st, e, Head(names), ModuleV(Head(names))))
evaluate_import(import_node, e, st) == ImportLoop(import_node.names, e, st)

RECURSIVE ImportFromLoop(_, _, _, _)
\* for alias in import_from_node.names: state[alias.name] = getattr(module, alias.name)
ImportFromLoop(module, names, e, st) ==
    IF Len(names) = 0 THEN Ok(NoneV, st)
    ELSE LET member == GetAttr(module, Head(names), st)
         IN  IF Raised(member) THEN member
             ELSE ImportFromLoop(module, Tail(names), e, SetVar(st, e, Head(names), member.v))
evaluate_import_from(import_from_node, e, st) ==
    IF import_from_node.module \notin HostModules
    THEN Throw("ModuleNotFoundError",
               "No module named '" \o import_from_node.module \o "'", st)
    ELSE ImportFromLoop(ModuleV(import_from_node.module), import_from_node.names, e, st)

\* ------------------------------------------------------------------------
\* Subscripts, mappings, loops and comprehensions
\* ------------------------------------------------------------------------
\* whether the host can hash v (the key of a dict)
Hashable(v) == v.t \notin {"list", "dict"}
\* for x in v: the host types that iterate, how many items v has and the i-th
IsIterable(v) == v.t \in {"tuple", "list", "str", "dict"}
IterLen(v, st) ==
    CASE v.t = "tuple" -> Len(v.xs)
      [] v.t = "list" -> Len(st.objs[v.a].xs)
      [] v.t = "str" -> Len(v.s)
      [] v.t = "dict" -> Len(st.objs[v.a].kv)
IterAt(v, i, st) ==
    CASE v.t = "tuple" -> v.xs[i]
      [] v.t = "list" -> st.objs[v.a].xs[i]
      [] v.t = "str" -> StrV(SubSeq(v.s, i, i))
      [] v.t = "dict" -> st.objs[v.a].kv[i].k

\* value[sliced] on a list, a tuple or a text
SeqItem(value, sliced, st) ==
    IF sliced.t \notin {"int", "bool"}
    THEN Throw("TypeError", "indices must be integers or slices", st)
    ELSE LET i == Num(sliced)[1]
             pos == IF i < 0 THEN i + IterLen(value, st) + 1 ELSE i + 1
         IN  IF pos >= 1 /\ pos <= IterLen(value, st) THEN Ok(IterAt(value, pos, st), st)
             ELSE Throw("IndexError", "index out of range", st)

\* the keys of a dict object as texts, for difflib (a key that has no length
\* makes difflib fail)
KeyTexts(kv) == [i \in 1..Len(kv) |-> kv[i].k.s]
DictGet(kv, key, st) == kv[CHOOSE i \in 1..Len(kv) : ValEq(kv[i].k, key, st)].v

\* the tests of evaluate_subscript on the evaluated value and index
Index(value, sliced, st) ==
    IF value.t \in {"list", "tuple", "str"} THEN SeqItem(value, sliced, st)
    ELSE IF value.t # "dict" THEN Throw("TypeError", "argument is not iterable", st)
    ELSE IF ~Hashable(sliced) THEN Throw("TypeError", "unhashable type", st)
    ELSE IF \E i \in 1..Len(st.objs[value.a].kv) : ValEq(st.objs[value.a].kv[i].k, sliced, st)
    THEN Ok(DictGet(st.objs[value.a].kv, sliced, st), st)
    ELSE IF sliced.t = "str"
              /\ \E i \in 1..Len(st.objs[value.a].kv) :
                    st.objs[value.a].kv[i].k.t \in {"none", "bool", "int", "float"}
    THEN Throw("TypeError", "object has no len()", st)
    ELSE IF sliced.t = "str"
              /\ Len(get_close_matches(sliced.s, KeyTexts(st.objs[value.a].kv))) > 0
    THEN Ok(DictGet(st.objs[value.a].kv,
                    StrV(get_close_matches(sliced.s, KeyTexts(st.objs[value.a].kv))[1]), st),
            st)
    ELSE Throw("InterpretorError",
               "Could not index/subscript " \o Str(value) \o " with '" \o Str(sliced) \o "'.",
               st)

evaluate_subscript(subscript, e, st) ==
    LET sliced == evaluate_ast(subscript.slice, e, st)
    IN  IF Raised(sliced) THEN sliced
        ELSE LET value == evaluate_ast(subscript.value, e, sliced.st)
             IN  IF Raised(value) THEN value ELSE Index(value.v, sliced.v, value.st)

RECURSIVE DictOf(_, _, _, _)
\* dict(zip(keys, values)), the pairs entering kv in order
DictOf(kv, keys, values, st) ==
    IF Len(keys) = 0 \/ Len(values) = 0
    THEN Ok(DictV(NewAddr(st)), Alloc(st, DictObj(kv)))
    ELSE IF ~Hashable(Head(keys)) THEN Throw("TypeError", "unhashable type", st)
    ELSE DictOf(DictPut(kv, Head(keys), Head(values), st), Tail(keys), Tail(values), st)

\* evaluate_ast on a dict display: all keys, then all values
evaluate_dict(expression, e, st) ==
    LET keys == EvalList(expression.keys, e, st)
    IN  IF Raised(keys) THEN keys
        ELSE LET values == EvalList(expression.values, e, keys.st)
             IN  IF Raised(values) THEN values ELSE DictOf(<<>>, keys.v, values.v, values.st)
\* variant: every operator of evaluate_binop is applied and stored
evaluate_aug_assign_BinopOperators(aug_assign, e, st) ==
    LET target == evaluate_ast(aug_assign.target, e, st)
    IN  IF Raised(target) THEN target
        ELSE LET value == evaluate_ast(aug_assign.value, e, target.st)
             IN  IF Raised(value) THEN value
                 ELSE IF aug_assign.op \notin {"Add", "Sub", "Mult", "Div", "FloorDiv", "Mod",
                                               "Pow"}
                 THEN Throw("InterpretorError",
                            "Augmented assignment " \o aug_assign.op \o " not supported",
                            value.st)
                 ELSE LET r == Arith(aug_assign.op, target.v, value.v, value.st)
                      IN  IF Raised(r) THEN r
                          ELSE Ok(r.v, SetVar(r.st, e, aug_assign.target.id, r.v))
\* variant: the result is stored under the name the read resolved to
evaluate_aug_assign_ResolvedName(aug_assign, e, st) ==
    LET target == evaluate_ast(aug_assign.target, e, st)
    IN  IF Raised(target) THEN target
        ELSE LET value == evaluate_ast(aug_assign.value, e, target.st)
                 id == IF Has(Env(st, e), aug_assign.target.id) THEN aug_assign.target.id
                       ELSE get_close_matches(aug_assign.target.id, Keys(Env(st, e)))[1]
             IN  IF Raised(value) THEN value
                 ELSE IF aug_assign.op \notin {"Add", "Sub", "Mult", "Div"}
                 THEN Throw("InterpretorError",
                            "Augmented assignment " \o aug_assign.op \o " not supported",
                            value.st)
                 ELSE LET r == Arith(aug_assign.op, target.v, value.v, value.st)
                      IN  IF Raised(r) THEN r
                          ELSE Ok(r.v, SetVar(r.st, e, id, r.v))

evaluate_aug_assign(aug_assign, e, st) ==
    LET target == evaluate_ast(aug_assign.target, e, st)
    IN  IF Raised(target) THEN target
        ELSE LET value == evaluate_ast(aug_assign.value, e, target.st)
             IN  IF Raised(value) THEN value
                 ELSE IF aug_assign.op \notin {"Add", "Sub", "Mult", "Div"}
                 THEN Throw("InterpretorError",
                            "Augmented assignment " \o aug_assign.op \o " not supported",
                            value.st)
                 ELSE LET r == Arith(aug_assign.op, target.v, value.v, value.st)
                      IN  IF Raised(r) THEN r
                          ELSE IF aug_assign.target.k # "Name"
                          THEN Throw("AttributeError", "object has no attribute 'id'", r.st)
                          ELSE Ok(r.v, SetVar(r.st, e, aug_assign.target.id, r.v))

RECURSIVE unpack_tuple(_, _, _, _)
RECURSIVE UnpackLoop(_, _, _, _, _)
\* for idx, variable in enumerate(target.elts): ...
UnpackLoop(elts, values, idx, e, st) ==
    IF idx > Len(elts) THEN Ok(NoneV, st)
    ELSE IF elts[idx].k = "Tuple"
    THEN LET inner == unpack_tuple(elts[idx], IterAt(values, idx, st), e, st)
         IN  IF Raised(inner) THEN inner ELSE UnpackLoop(elts, values, idx + 1, e, inner.st)
    ELSE UnpackLoop(elts, values, idx + 1, e, SetVar(st, e, elts[idx].id, IterAt(values, idx, st)))
unpack_tuple(target, values, e, st) ==
    CASE values.t \in {"tuple", "list", "str"} ->
            IF IterLen(values, st) # Len(target.elts)
            THEN Throw("InterpretorError", "Mismatch in number of variables to unpack", st)
            ELSE UnpackLoop(target.elts, values, 1, e, st)
      [] values.t \in {"none", "bool", "int", "float", "host", "func", "exc"} ->
            Throw("TypeError", "object has no len()", st)

RECURSIVE ForLoop(_, _, _, _, _, _, _)
\* ForLoop, were only the first statement of the body executed in each
\* iteration
ForLoop_FirstStatement(for_loop, iterator, size, i, e, st, result) ==
    IF iterator.t = "dict" /\ IterLen(iterator, st) # size
    THEN Throw("RuntimeError", "dictionary changed size during iteration", st)
    ELSE IF i > IterLen(iterator, st) THEN Ok(result, st)
    ELSE LET bound == IF for_loop.target.k = "Tuple"
                      THEN unpack_tuple(for_loop.target, IterAt(iterator, i, st), e, st)
                      ELSE Ok(NoneV, SetVar(st, e, for_loop.target.id, IterAt(iterator, i, st)))
         IN  IF Raised(bound) THEN bound
             ELSE LET body == ExecTracked(SubSeq(for_loop.body, 1, 1), e, bound.st, result)
                  IN  IF Raised(body) THEN body
                      ELSE ForLoop(for_loop, iterator, size, i + 1, e, body.st, body.v)

\* the iterations of evaluate_for from the i-th item on; size is the size the
\* dict iterated over had when the loop began
ForLoop(for_loop, iterator, size, i, e, st, result) ==
    IF iterator.t = "dict" /\ IterLen(iterator, st) # size
    THEN Throw("RuntimeError", "dictionary changed size during iteration", st)
    ELSE IF i > IterLen(iterator, st) THEN Ok(result, st)
    ELSE LET bound == IF for_loop.target.k = "Tuple"
                      THEN unpack_tuple(for_loop.target, IterAt(iterator, i, st), e, st)
                      ELSE Ok(NoneV, SetVar(st, e, for_loop.target.id, IterAt(iterator, i, st)))
         IN  IF Raised(bound) THEN bound
             ELSE LET body == ExecTracked(for_loop.body, e, bound.st, result)
                  IN  IF Raised(body) THEN body
                      ELSE ForLoop(for_loop, iterator, size, i + 1, e, body.st, body.v)

evaluate_for(for_loop, e, st) ==
    LET iterator == evaluate_ast(for_loop.iter, e, st)
    IN  IF Raised(iterator) THEN iterator
        ELSE IF ~IsIterable(iterator.v)
        THEN Throw("TypeError", "object is not iterable", iterator.st)
        ELSE ForLoop(for_loop, iterator.v, IterLen(iterator.v, iterator.st), 1, e,
                     iterator.st, NoneV)

RECURSIVE CompLoop(_, _, _, _, _, _, _)
RECURSIVE CompLoop_Filtered(_, _, _, _, _, _, _)
\* variant: a value is kept only when the first if clause of the generator
\* holds for it
CompLoop_Filtered(expression, iter_list, size, i, results, e, st) ==
    IF i > IterLen(iter_list, st)
    THEN Ok(ListV(NewAddr(st)), Alloc(st, ListObj(results)))
    ELSE LET st1 == SetVar(st, e, expression.generators[1].target.id, IterAt(iter_list, i, st))
             keep == IF Len(expression.generators[1].ifs) = 0 THEN Ok(BoolV(TRUE), st1)
                     ELSE evaluate_ast(expression.generators[1].ifs[1], e, st1)
         IN  IF Raised(keep) THEN keep
             ELSE IF ~Truthy(keep.v, keep.st)
             THEN CompLoop_Filtered(expression, iter_list, size, i + 1, results, e, keep.st)
             ELSE LET elt == evaluate_ast(expression.elt, e, keep.st)
                  IN  IF Raised(elt) THEN elt
                      ELSE CompLoop_Filtered(expression, iter_list, size, i + 1,
                                             Append(results, elt.v), e, elt.st)

\* the iterations of the list comprehension branch of evaluate_ast
CompLoop(expression, iter_list, size, i, results, e, st) ==
    IF iter_list.t = "dict" /\ IterLen(iter_list, st) # size
    THEN Throw("RuntimeError", "dictionary changed size during iteration", st)
    ELSE IF i > IterLen(iter_list, st)
    THEN Ok(ListV(NewAddr(st)), Alloc(st, ListObj(results)))
    ELSE IF expression.generators[1].target.k = "Tuple" /\ ~IsIterable(IterAt(iter_list, i, st))
    THEN Throw("TypeError", "object is not iterable", st)
    ELSE LET value == IterAt(iter_list, i, st)
             st1 == IF expression.generators[1].target.k = "Tuple"
                    THEN [st EXCEPT !.envs[e] =
                            PutAll(@, [j \in 1..Len(expression.generators[1].target.elts) |->
                                            expression.generators[1].target.elts[j].id],
                                   [j \in 1..IterLen(value, st) |-> IterAt(value, j, st)],
                                   FALSE)]
                    ELSE SetVar(st, e, expression.generators[1].target.id, value)
             elt == evaluate_ast(expression.elt, e, st1)
         IN  IF Raised(elt) THEN elt
             ELSE CompLoop(expression, iter_list, size, i + 1, Append(results, elt.v), e,
                           elt.st)

evaluate_listcomp(expression, e, st) ==
    LET iter_list == evaluate_ast(expression.generators[1].iter, e, st)
    IN  IF Raised(iter_list) THEN iter_list
        ELSE IF ~IsIterable(iter_list.v)
        THEN Throw("TypeError", "object is not iterable", iter_list.st)
        ELSE CompLoop(expression, iter_list.v, IterLen(iter_list.v, iter_list.st), 1, <<>>, e,
                      iter_list.st)

\* ------------------------------------------------------------------------
\* try / except / finally
\* ------------------------------------------------------------------------
\* isinstance(e, handler.type): handler.type is a syntax node, never a class
isinstance(exc, type, st) ==
    Throw("TypeError", "isinstance() arg 2 must be a type or tuple of types", st)

\* the loop over expression.handlers and the re-raise that follows it
HandlerLoop(handlers, exc, e, st, i) ==
    IF i > Len(handlers) THEN [v |-> NoneV, st |-> st, exc |-> exc]
    ELSE LET handler == handlers[i]
             matches == IF handler.type.k = "None" THEN Ok(BoolV(TRUE), st)
                        ELSE isinstance(exc, handler.type, st)
         IN  IF Raised(matches) THEN matches
             ELSE IF matches.v.b THEN ExecStmts(handler.body, e, st)
             ELSE HandlerLoop(handlers, exc, e, st, i + 1)

\* evaluate_try, were the finally body an ordinary continuation of the
\* statement, skipped when the error is not handled
evaluate_try_FinallySkipped(expression, e, st) ==
    LET body == ExecStmts(expression.body, e, st)
        after == IF Raised(body) /\ IsException(body.exc.cls)
                 THEN HandlerLoop(expression.handlers, body.exc, e, body.st, 1)
                 ELSE body
    IN  IF Raised(after) THEN after
        ELSE ExecStmts(expression.finalbody, e, after.st)

evaluate_try(expression, e, st) ==
    LET body == ExecStmts(expression.body, e, st)
        \* except Exception as e: ...
        after == IF Raised(body) /\ IsException(body.exc.cls)
                 THEN HandlerLoop(expression.handlers, body.exc, e, body.st, 1)
                 ELSE body
        \* finally: ...
        final == IF Len(expression.finalbody) > 0
                 THEN ExecStmts(expression.finalbody, e, after.st)
                 ELSE Ok(NoneV, after.st)
    IN  IF Raised(final) THEN final
        ELSE [v |-> NoneV, st |-> final.st, exc |-> after.exc]

\* ------------------------------------------------------------------------
\* The dispatch
\* ------------------------------------------------------------------------
evaluate_ast(expression, e, st) ==
    CASE expression.k = "Assign" -> evaluate_assign(expression, e, st)
      [] expression.k = "Call" -> evaluate_call(expression, e, st)
      [] expression.k = "Constant" -> Ok(expression.value, st)
      [] expression.k = "Dict" -> evaluate_dict(expression, e, st)
      [] expression.k = "Expr" -> evaluate_ast(expression.value, e, st)
      [] expression.k = "For" -> evaluate_for(expression, e, st)
      [] expression.k = "If" ->
            IF IsMainGuard(expression.test)
            THEN LET r == ExecStmts(expression.body, e, st)
                 IN  IF Raised(r) THEN r ELSE Ok(NoneV, r.st)
            ELSE evaluate_if(expression, e, st)
      [] expression.k = "List" ->
            LET elts == EvalList(expression.elts, e, st)
            IN  IF Raised(elts) THEN elts
                ELSE Ok(ListV(NewAddr(elts.st)), Alloc(elts.st, ListObj(elts.v)))
      [] expression.k = "Name" -> evaluate_name(expression, e, st)
      [] expression.k = "Subscript" -> evaluate_subscript(expression, e, st)
      [] expression.k = "BinOp" -> evaluate_binop(expression, e, st)
      [] expression.k = "Tuple" ->
            LET elts == EvalList(expression.elts, e, st)
            IN  IF Raised(elts) THEN elts ELSE Ok(TupleV(elts.v), elts.st)
      [] expression.k = "Import" -> evaluate_import(expression, e, st)
      [] expression.k = "ImportFrom" -> evaluate_import_from(expression, e, st)
      [] expression.k = "Attribute" -> evaluate_attribute(expression, e, st)
      [] expression.k = "AugAssign" -> evaluate_aug_assign(expression, e, st)
      [] expression.k = "IfExp" -> evaluate_ifexp(expression, e, st)
      [] expression.k = "UnaryOp" -> evaluate_unaryop(expression, e, st)
      [] expression.k = "ListComp" -> evaluate_listcomp(expression, e, st)
      [] expression.k = "FunctionDef" -> evaluate_function_def(expression, e, st)
      [] expression.k = "Starred" -> evaluate_ast(expression.value, e, st)
      [] expression.k = "Compare" -> evaluate_compare(expression, e, st)
      [] expression.k = "BoolOp" -> evaluate_boolop(expression, e, st)
      [] expression.k = "Return" -> evaluate_return(expression, e, st)
      [] expression.k = "Pass" -> Ok(NoneV, st)
      [] expression.k = "Raise" -> evaluate_raise(expression, e, st)
      [] expression.k = "Assert" -> evaluate_assert(expression, e, st)
      [] expression.k = "Try" -> evaluate_try(expression, e, st)
      [] expression.k \in NoBranchFor ->
            Throw("InterpretorError", expression.k \o " is not supported.", st)

\* ------------------------------------------------------------------------
\* evaluate(code, tools, state): the state machine
\*   code   : the script, [ok, lines, body]; ok is whether ast.parse accepts
\*            it, lines is code.split('\n'), body is expression.body
\*   pc     : "parse", "loop", "returned", "raised"
\*   idx    : the position of the loop over expression.body (1-based)
\*   envs, objs, funcs, tools, log : the store (envs[1] is state)
\*   result, line_result : the locals of evaluate
\*   error  : the exception evaluate ends with, if any
\*   retval : what evaluate returns
\*   stdout : what evaluate itself has printed
\* ------------------------------------------------------------------------
VARIABLES code, pc, idx, envs, objs, funcs, tools, log, result, line_result, error, retval,
          stdout
vars == <<code, pc, idx, envs, objs, funcs, tools, log, result, line_result, error, retval,
          stdout>>

Store == [envs |-> envs, objs |-> objs, funcs |-> funcs, tools |-> tools, log |-> log]
SetStore(st) ==
    /\ envs' = st.envs
    /\ objs' = st.objs
    /\ funcs' = st.funcs
    /\ tools' = st.tools
    /\ log' = st.log
state == envs[GlobalEnv]

\* the statement the loop is at, and what evaluate_ast makes of it
AtStatement == pc = "loop" /\ idx <= Len(code.body)
node == code.body[idx]
Outcome == evaluate_ast(node, GlobalEnv, Store)

\* error_content, were the text looked up by the position of the statement
error_content_ByPosition(error_line) == code.lines[idx]

\* the message evaluate builds around the error e of the statement at error_line
error_content(error_line) ==
    IF error_line <= Len(code.lines) THEN code.lines[error_line] ELSE "<unknown>"
StoppedMsg(error_line, e) ==
    "Evaluation of the code stopped at line " \o ToString(error_line)
        \o " before the end because of the following error: " \o e.msg
        \o "\nError occurred at line " \o ToString(error_line) \o ": "
        \o error_content(error_line)

\* expression = ast.parse(code); result = None
Parse ==
    /\ pc = "parse"
    /\ code.ok
    /\ pc' = "loop"
    /\ idx' = 1
    /\ result' = NoneV
    /\ UNCHANGED <<code, envs, objs, funcs, tools, log, line_result, error, retval, stdout>>
\* SyntaxFailure, were the malformed text reported by raising an InterpretorError
SyntaxFailure_Raised ==
    /\ pc = "parse"
    /\ ~code.ok
    /\ pc' = "raised"
    /\ error' = [cls |-> "InterpretorError", msg |-> code.msg]
    /\ UNCHANGED <<code, idx, envs, objs, funcs, tools, log, result, line_result, retval, stdout>>

\* except SyntaxError as e: print("The code ... is not valid.\n", e); return
SyntaxFailure ==
    /\ pc = "parse"
    /\ ~code.ok
    /\ stdout' = Append(stdout, "The code generated by the agent is not valid.\n " \o code.msg)
    /\ pc' = "returned"
    /\ retval' = <<>>
    /\ UNCHANGED <<code, idx, envs, objs, funcs, tools, log, result, line_result, error>>

\* StatementOk, were the result overwritten by every statement
StatementOk_LastStatement ==
    /\ AtStatement
    /\ ~Raised(Outcome)
    /\ SetStore(Outcome.st)
    /\ line_result' = Outcome.v
    /\ result' = Outcome.v
    /\ idx' = idx + 1
    /\ UNCHANGED <<code, pc, error, retval, stdout>>

\* one turn of the loop over expression.body, the statement raising nothing
StatementOk ==
    /\ AtStatement
    /\ ~Raised(Outcome)
    /\ SetStore(Outcome.st)
    /\ line_result' = Outcome.v
    /\ result' = IF Outcome.v.t # "none" THEN Outcome.v ELSE result
    /\ idx' = idx + 1
    /\ UNCHANGED <<code, pc, error, retval, stdout>>

\* except InterpretorError as e: ... raise InterpretorError(msg) from None
StatementInterpretorError ==
    /\ AtStatement
    /\ Raised(Outcome)
    /\ IsInterpretorError(Outcome.exc.cls)
    /\ SetStore(Outcome.st)
    /\ error' = [cls |-> "InterpretorError",
                 msg |-> StoppedMsg(node.lineno, Outcome.exc) \o ":\n" \o Outcome.exc.msg]
    /\ pc' = "raised"
    /\ UNCHANGED <<code, idx, result, line_result, retval, stdout>>

\* StatementException, were the error reported and the loop continued
StatementException_Continue ==
    /\ AtStatement
    /\ Raised(Outcome)
    /\ ~IsInterpretorError(Outcome.exc.cls)
    /\ IsException(Outcome.exc.cls)
    /\ SetStore(Outcome.st)
    /\ idx' = idx + 1
    /\ UNCHANGED <<code, pc, result, line_result, error, retval, stdout>>

\* except Exception as e: ... raise Exception(msg) from None
StatementException ==
    /\ AtStatement
    /\ Raised(Outcome)
    /\ ~IsInterpretorError(Outcome.exc.cls)
    /\ IsException(Outcome.exc.cls)
    /\ SetStore(Outcome.st)
    /\ error' = [cls |-> "Exception", msg |-> StoppedMsg(node.lineno, Outcome.exc)]
    /\ pc' = "raised"
    /\ UNCHANGED <<code, idx, result, line_result, retval, stdout>>

\* an exception outside the Exception hierarchy passes both except clauses
StatementBaseException ==
    /\ AtStatement
    /\ Raised(Outcome)
    /\ ~IsException(Outcome.exc.cls)
    /\ SetStore(Outcome.st)
    /\ error' = Outcome.exc
    /\ pc' = "raised"
    /\ UNCHANGED <<code, idx, result, line_result, retval, stdout>>

\* return result, state
ReturnResult ==
    /\ pc = "loop"
    /\ idx > Len(code.body)
    /\ pc' = "returned"
    /\ retval' = <<result, state>>
    /\ UNCHANGED <<code, idx, envs, objs, funcs, tools, log, result, line_result, error, stdout>>

\* ------------------------------------------------------------------------
\* The inputs: scripts, tool registries and initial states
\* ------------------------------------------------------------------------
MaxVal == 1
MaxChain == 2
MaxOperands == 2

Script(lines, body) == [ok |-> TRUE, lines |-> lines, body |-> body]
Registry(names) == [i \in 1..Len(names) |-> [k |-> names[i], v |-> HostV(names[i])]]
AllTools == <<"sideEffectA", "sideEffectB", "a", "b", "mark", "boom", "ValueError", "SystemExit">>
I(n) == Constant(IntV(n))
S(s) == Constant(StrV(s))
CallOf(name, args) == Call(Name(name), args, <<>>)
Mark(lineno, n) == Expr(lineno, CallOf("mark", <<I(n)>>))
MarkS(lineno, s) == Expr(lineno, CallOf("mark", <<S(s)>>))

\* x = 1; y = 2; if x < y: z = x + y else: z = 0
ExampleIf(a, b) ==
    Script(<<"x = " \o ToString(a), "y = " \o ToString(b), "if x < y:", "    z = x + y",
             "else:", "    z = 0">>,
           <<Assign(1, Name("x"), I(a)),
             Assign(2, Name("y"), I(b)),
             If(3, Compare(Name("x"), <<"Lt">>, <<Name("y")>>),
                <<Assign(4, Name("z"), BinOp(Name("x"), "Add", Name("y")))>>,
                <<Assign(6, Name("z"), I(0))>>)>>)

\* mark(1); n(mark(2)); mark(3)
CallNames == {"len", "print", "foo", "mark"}
CallScript(n) ==
    Script(<<"mark(1)", n \o "(mark(2))", "mark(3)">>,
           <<Mark(1, 1), Expr(2, CallOf(n, <<CallOf("mark", <<I(2)>>)>>)), Mark(3, 3)>>)

\* def add(a, b): return a + b; mark(0) -- then add(x, y)
ReturnScript(x, y, trailing) ==
    Script(<<"def add(a, b):", "    return a + b">>
               \o (IF trailing THEN <<"    mark(0)">> ELSE <<>>)
               \o <<"add(" \o ToString(x) \o ", " \o ToString(y) \o ")">>,
           <<FunctionDef(1, "add", <<"a", "b">>, <<>>,
                         <<Return(2, BinOp(Name("a"), "Add", Name("b")))>>
                             \o (IF trailing THEN <<Mark(3, 0)>> ELSE <<>>)),
             Expr(IF trailing THEN 4 ELSE 3, CallOf("add", <<I(x), I(y)>>))>>)

\* try: <body> [except ...: ...] [finally: mark('fin')] -- then mark('after')
BodyKinds == {"ok", "interp", "host", "value", "base"}
HandlerKinds == {"none", "bare", "typed", "typed_bare", "bare_raises", "exception"}
TryBody(kind, lineno) ==
    CASE kind = "ok" -> MarkS(lineno, "t")
      [] kind = "interp" -> Expr(lineno, CallOf("undefined", <<>>))
      [] kind = "host" -> Expr(lineno, CallOf("boom", <<>>))
      [] kind = "value" -> Raise(lineno, CallOf("ValueError", <<S("v")>>))
      [] kind = "base" -> Raise(lineno, CallOf("SystemExit", <<S("x")>>))
TryBodyText(kind) ==
    CASE kind = "ok" -> "    mark('t')"
      [] kind = "interp" -> "    undefined()"
      [] kind = "host" -> "    boom()"
      [] kind = "value" -> "    raise ValueError('v')"
      [] kind = "base" -> "    raise SystemExit('x')"
TryHandlers(kind) ==
    CASE kind = "none" -> <<>>
      [] kind = "bare" -> <<ExceptHandler(NoNode, <<MarkS(5, "h")>>)>>
      [] kind = "typed" -> <<ExceptHandler(Name("ValueError"), <<MarkS(5, "h1")>>)>>
      [] kind = "typed_bare" -> <<ExceptHandler(Name("ValueError"), <<MarkS(5, "h1")>>),
                                  ExceptHandler(NoNode, <<MarkS(7, "h2")>>)>>
      [] kind = "bare_raises" -> <<ExceptHandler(NoNode, <<Expr(5, CallOf("boom", <<>>))>>)>>
      [] kind = "exception" -> <<ExceptHandler(Name("Exception"), <<MarkS(5, "h1")>>)>>
TryHandlersText(kind) ==
    CASE kind = "none" -> <<>>
      [] kind = "bare" -> <<"except:", "    mark('h')">>
      [] kind = "typed" -> <<"except ValueError:", "    mark('h1')">>
      [] kind = "typed_bare" -> <<"except ValueError:", "    mark('h1')",
                                  "except:", "    mark('h2')">>
      [] kind = "bare_raises" -> <<"except:", "    boom()">>
      [] kind = "exception" -> <<"except Exception:", "    mark('h1')">>
TryScript(body, handlers, fin) ==
    LET text == <<"try:", TryBodyText(body)>> \o TryHandlersText(handlers)
                    \o (IF fin THEN <<"finally:", "    mark('fin')">> ELSE <<>>)
    IN  Script(<<"mark('before')">> \o text \o <<"mark('after')">>,
               <<MarkS(1, "before"),
                 Try(2, <<TryBody(body, 3)>>, TryHandlers(handlers),
                     IF fin THEN <<MarkS(Len(text) + 1, "fin")>> ELSE <<>>),
                 MarkS(Len(text) + 2, "after")>>)

\* x = f() or g() ..., the operands being calls of tools
OperandTools == {"sideEffectA", "sideEffectB", "a", "b"}
RECURSIVE Join(_, _)
Join(texts, sep) ==
    IF Len(texts) = 0 THEN ""
    ELSE IF Len(texts) = 1 THEN texts[1]
    ELSE texts[1] \o sep \o Join(Tail(texts), sep)
BoolScript(op, names) ==
    Script(<<"x = " \o Join([i \in 1..Len(names) |-> names[i] \o "()"],
                            IF op = "And" THEN " and " ELSE " or ")>>,
           <<Assign(1, Name("x"),
                    BoolOp(op, [i \in 1..Len(names) |-> CallOf(names[i], <<>>)]))>>)

\* r = e0 op1 e1 ... opn en   and   if e0 op1 e1 ... opn en: t = 1 else: t = 0
CmpOps == {"Eq", "NotEq", "Lt", "LtE", "Gt", "GtE", "In", "NotIn", "Is", "IsNot"}
OpText(op) ==
    CASE op = "Eq" -> " == " [] op = "NotEq" -> " != " [] op = "Lt" -> " < "
      [] op = "LtE" -> " <= " [] op = "Gt" -> " > " [] op = "GtE" -> " >= "
      [] op = "In" -> " in " [] op = "NotIn" -> " not in " [] op = "Is" -> " is "
      [] op = "IsNot" -> " is not "
Atoms == {IntV(0), IntV(1), NoneV}
LastAtoms == Atoms \cup {TupleV(<<IntV(0)>>)}
AtomNode(v) ==
    IF v.t = "tuple" THEN Tuple([i \in 1..Len(v.xs) |-> Constant(v.xs[i])]) ELSE Constant(v)
AtomText(v) == IF v.t = "tuple" THEN "(0,)" ELSE Str(v)
RECURSIVE ChainText(_, _, _)
ChainText(vals, ops, i) ==
    IF i > Len(ops) THEN ""
    ELSE OpText(ops[i]) \o AtomText(vals[i + 1]) \o ChainText(vals, ops, i + 1)
Chain(vals, ops) ==
    Compare(AtomNode(vals[1]), ops, [i \in 1..Len(ops) |-> AtomNode(vals[i + 1])])
CompareScript(vals, ops) ==
    Script(<<"r = " \o AtomText(vals[1]) \o ChainText(vals, ops, 1)>>,
           <<Assign(1, Name("r"), Chain(vals, ops))>>)
IfBody(lineno, test) ==
    If(lineno, test, <<Assign(lineno + 1, Name("t"), I(1))>>,
       <<Assign(lineno + 3, Name("t"), I(0))>>)
IfScript(vals, ops) ==
    Script(<<"if " \o AtomText(vals[1]) \o ChainText(vals, ops, 1) \o ":", "    t = 1",
             "else:", "    t = 0">>,
           <<IfBody(1, Chain(vals, ops))>>)
\* the same two forms for the test __name__ <op> "__main__"
GuardTest(op) == Compare(Name("__name__"), <<op>>, <<S("__main__")>>)
GuardExprScript(op) ==
    Script(<<"r = __name__" \o OpText(op) \o "'__main__'">>,
           <<Assign(1, Name("r"), GuardTest(op))>>)
GuardIfScript(op) ==
    Script(<<"if __name__" \o OpText(op) \o "'__main__':", "    t = 1", "else:", "    t = 0">>,
           <<IfBody(1, GuardTest(op))>>)

\* if 1 < 2: mark(1) -- then a statement that fails -- then mark(4)
ErrorKinds == {"zerodiv", "undefined", "unsupported", "arity", "tool", "base",
               "raise_value", "raise_text", "raise_bare", "call_arity"}
Failing(kind, lineno) ==
    CASE kind = "zerodiv" -> Assign(lineno, Name("x"), BinOp(I(1), "Div", I(0)))
      [] kind = "undefined" -> Assign(lineno, Name("x"), Name("missing"))
      [] kind = "unsupported" -> Other(lineno, "While")
      [] kind = "arity" -> Assign(lineno, Tuple(<<Name("p"), Name("q")>>),
                                  Tuple(<<I(1), I(2), I(3)>>))
      [] kind = "tool" -> Expr(lineno, CallOf("boom", <<>>))
      [] kind = "base" -> Raise(lineno, CallOf("SystemExit", <<S("x")>>))
      [] kind = "raise_value" -> Raise(lineno, CallOf("ValueError", <<S("v")>>))
      [] kind = "raise_text" -> Raise(lineno, S("no"))
      [] kind = "raise_bare" -> Raise(lineno, NoNode)
      [] kind = "call_arity" -> Expr(lineno, CallOf("add", <<I(1)>>))
FailingText(kind) ==
    CASE kind = "zerodiv" -> "x = 1 / 0"
      [] kind = "undefined" -> "x = missing"
      [] kind = "unsupported" -> "while x: pass"
      [] kind = "arity" -> "p, q = (1, 2, 3)"
      [] kind = "tool" -> "boom()"
      [] kind = "base" -> "raise SystemExit('x')"
      [] kind = "raise_value" -> "raise ValueError('v')"
      [] kind = "raise_text" -> "raise 'no'"
      [] kind = "raise_bare" -> "raise"
      [] kind = "call_arity" -> "add(1)"
ErrorScript(kind) ==
    Script(<<"def add(a, b): return a + b", "if 1 < 2:", "    mark(1)", FailingText(kind),
             "mark(4)">>,
           <<FunctionDef(1, "add", <<"a", "b">>, <<>>,
                         <<Return(1, BinOp(Name("a"), "Add", Name("b")))>>),
             If(2, Compare(I(1), <<"Lt">>, <<I(2)>>), <<Mark(3, 1)>>, <<>>),
             Failing(kind, 4),
             Mark(5, 4)>>)

\* x = <v>; pass; mark(0)
TailScript(v) ==
    Script(<<"x = " \o ToString(v), "pass", "mark(0)">>,
           <<Assign(1, Name("x"), I(v)), Pass(2), Mark(3, 0)>>)

\* x = 1; d['k'] = 1; def f(): <body> [boom()] -- then f()
MutationKinds == {"assign", "aug", "sub_existing", "sub_new", "for", "comp", "append"}
Mutation(kind, lineno) ==
    CASE kind = "assign" -> Assign(lineno, Name("x"), I(2))
      [] kind = "aug" -> AugAssign(lineno, Name("x"), "Add", I(1))
      [] kind = "sub_existing" -> Assign(lineno, Subscript(Name("d"), S("k")), I(2))
      [] kind = "sub_new" -> Assign(lineno, Subscript(Name("n"), S("k")), I(2))
      [] kind = "for" -> For(lineno, Name("x"), Tuple(<<I(5), I(6)>>), <<Pass(lineno)>>)
      [] kind = "comp" -> Expr(lineno, ListComp(Name("x"), Name("x"), Tuple(<<I(5), I(6)>>)))
      [] kind = "append" -> Expr(lineno, Call(Attribute(Name("l"), "append"), <<I(2)>>, <<>>))
MutationText(kind) ==
    CASE kind = "assign" -> "    x = 2"
      [] kind = "aug" -> "    x += 1"
      [] kind = "sub_existing" -> "    d['k'] = 2"
      [] kind = "sub_new" -> "    n['k'] = 2"
      [] kind = "for" -> "    for x in (5, 6): pass"
      [] kind = "comp" -> "    [x for x in (5, 6)]"
      [] kind = "append" -> "    l.append(2)"
MutationScript(kind, fails) ==
    Script(<<"x = 1", "d['k'] = 1", "l = [1]", "def f():", MutationText(kind)>>
               \o (IF fails THEN <<"    boom()">> ELSE <<>>) \o <<"f()">>,
           <<Assign(1, Name("x"), I(1)),
             Assign(2, Subscript(Name("d"), S("k")), I(1)),
             Assign(3, Name("l"), List(<<I(1)>>)),
             FunctionDef(4, "f", <<>>, <<>>,
                         <<Mutation(kind, 5)>>
                             \o (IF fails THEN <<Expr(6, CallOf("boom", <<>>))>> ELSE <<>>)),
             Expr(IF fails THEN 7 ELSE 6, CallOf("f", <<>>))>>)

\* which environment the body of f reads: a name bound after the definition,
\* a name rebound after it, a local of the calling function g, and a local
\* of the function g that the definition of f is nested in
ScopeKinds == {"late", "rebound", "caller_local", "caller_shadow", "nested"}
DefF(lineno, name) == FunctionDef(lineno, "f", <<>>, <<>>, <<Return(lineno + 1, Name(name))>>)
DefG(lineno) ==
    FunctionDef(lineno, "g", <<>>, <<>>,
                <<Assign(lineno + 1, Name("z"), I(7)), Return(lineno + 2, CallOf("f", <<>>))>>)
ScopeScript(kind) ==
    CASE kind = "late" ->
            Script(<<"def f():", "    return y", "y = 7", "r = f()">>,
                   <<DefF(1, "y"), Assign(3, Name("y"), I(7)),
                     Assign(4, Name("r"), CallOf("f", <<>>))>>)
      [] kind = "rebound" ->
            Script(<<"y = 1", "def f():", "    return y", "y = 7", "r = f()">>,
                   <<Assign(1, Name("y"), I(1)), DefF(2, "y"), Assign(4, Name("y"), I(7)),
                     Assign(5, Name("r"), CallOf("f", <<>>))>>)
      [] kind = "caller_local" ->
            Script(<<"def f():", "    return z", "def g():", "    z = 7", "    return f()",
                     "r = g()">>,
                   <<DefF(1, "z"), DefG(3), Assign(6, Name("r"), CallOf("g", <<>>))>>)
      [] kind = "caller_shadow" ->
            Script(<<"z = 1", "def f():", "    return z", "def g():", "    z = 7",
                     "    return f()", "r = g()">>,
                   <<Assign(1, Name("z"), I(1)), DefF(2, "z"), DefG(4),
                     Assign(7, Name("r"), CallOf("g", <<>>))>>)
      [] kind = "nested" ->
            Script(<<"def g():", "    w = 3", "    def f():", "        return w", "    return 0",
                     "g()", "r = f()">>,
                   <<FunctionDef(1, "g", <<>>, <<>>,
                                 <<Assign(2, Name("w"), I(3)), DefF(3, "w"), Return(5, I(0))>>),
                     Expr(6, CallOf("g", <<>>)),
                     Assign(7, Name("r"), CallOf("f", <<>>))>>)
ScopeScripts == {ScopeScript(kind) : kind \in ScopeKinds}

\* def f(a, b=1): mark(b) -- then one call of f
CallKinds == {"none", "one", "two", "three", "kw_a", "kw_b", "unknown", "only_unknown"}
CallArgs(kind) ==
    CASE kind \in {"none", "kw_a", "kw_b", "only_unknown"} -> <<>>
      [] kind \in {"one", "unknown"} -> <<I(1)>>
      [] kind = "two" -> <<I(1), I(2)>>
      [] kind = "three" -> <<I(1), I(2), I(3)>>
CallKeywords(kind) ==
    CASE kind = "kw_a" -> <<Keyword("a", I(1))>>
      [] kind = "kw_b" -> <<Keyword("b", I(2))>>
      [] kind \in {"unknown", "only_unknown"} -> <<Keyword("c", I(3))>>
      [] OTHER -> <<>>
CallText(kind) ==
    CASE kind = "none" -> "f()"
      [] kind = "one" -> "f(1)"
      [] kind = "two" -> "f(1, 2)"
      [] kind = "three" -> "f(1, 2, 3)"
      [] kind = "kw_a" -> "f(a=1)"
      [] kind = "kw_b" -> "f(b=2)"
      [] kind = "unknown" -> "f(1, c=3)"
      [] kind = "only_unknown" -> "f(c=3)"
ArityScript(kind) ==
    Script(<<"def f(a, b=1):", "    mark(b)", CallText(kind)>>,
           <<FunctionDef(1, "f", <<"a", "b">>, <<I(1)>>, <<Expr(2, CallOf("mark", <<Name("b")>>))>>),
             Expr(3, Call(Name("f"), CallArgs(kind), CallKeywords(kind)))>>)

\* def f(a=<default>): return a -- called without argument (or with one),
\* the environment binding the name a before or after the definition or not
DefaultKinds == {"plain", "shadow_before", "shadow_after", "given", "once"}
DefaultScript(kind) ==
    CASE kind = "plain" ->
            Script(<<"d = 1", "def f(a=d):", "    return a", "d = 2", "r = f()">>,
                   <<Assign(1, Name("d"), I(1)),
                     FunctionDef(2, "f", <<"a">>, <<Name("d")>>, <<Return(3, Name("a"))>>),
                     Assign(4, Name("d"), I(2)),
                     Assign(5, Name("r"), CallOf("f", <<>>))>>)
      [] kind = "shadow_before" ->
            Script(<<"a = 5", "d = 1", "def f(a=d):", "    return a", "r = f()">>,
                   <<Assign(1, Name("a"), I(5)), Assign(2, Name("d"), I(1)),
                     FunctionDef(3, "f", <<"a">>, <<Name("d")>>, <<Return(4, Name("a"))>>),
                     Assign(5, Name("r"), CallOf("f", <<>>))>>)
      [] kind = "shadow_after" ->
            Script(<<"d = 1", "def f(a=d):", "    return a", "a = 5", "r = f()">>,
                   <<Assign(1, Name("d"), I(1)),
                     FunctionDef(2, "f", <<"a">>, <<Name("d")>>, <<Return(3, Name("a"))>>),
                     Assign(4, Name("a"), I(5)),
                     Assign(5, Name("r"), CallOf("f", <<>>))>>)
      [] kind = "given" ->
            Script(<<"a = 5", "d = 1", "def f(a=d):", "    return a", "r = f(9)">>,
                   <<Assign(1, Name("a"), I(5)), Assign(2, Name("d"), I(1)),
                     FunctionDef(3, "f", <<"a">>, <<Name("d")>>, <<Return(4, Name("a"))>>),
                     Assign(5, Name("r"), CallOf("f", <<I(9)>>))>>)
      [] kind = "once" ->
            Script(<<"def f(a=sideEffectB()):", "    return a", "f()", "r = f()">>,
                   <<FunctionDef(1, "f", <<"a">>, <<CallOf("sideEffectB", <<>>)>>,
                                 <<Return(2, Name("a"))>>),
                     Expr(3, CallOf("f", <<>>)),
                     Assign(4, Name("r"), CallOf("f", <<>>))>>)
DefaultScripts == {DefaultScript(kind) : kind \in DefaultKinds}

\* [a = 0;] a, b[, c] = (5, 6, ...) or [5, 6, ...]
MaxUnpack == 3
TargetNames == <<"a", "b", "c">>
Elems(m) == [i \in 1..m |-> I(i + 4)]
ElemsText(m, asList) ==
    LET inner == Join([i \in 1..m |-> ToString(i + 4)], ", ")
    IN  IF asList THEN "[" \o inner \o "]"
        ELSE IF m = 1 THEN "(" \o inner \o ",)"
        ELSE "(" \o inner \o ")"
UnpackScript(n, m, asList, pre) ==
    LET o == IF pre THEN 1 ELSE 0
    IN  Script((IF pre THEN <<"a = 0">> ELSE <<>>)
                   \o <<Join(SubSeq(TargetNames, 1, n), ", ") \o " = " \o ElemsText(m, asList)>>,
               (IF pre THEN <<Assign(1, Name("a"), I(0))>> ELSE <<>>)
                   \o <<Assign(1 + o, Tuple([i \in 1..n |-> Name(TargetNames[i])]),
                               IF asList THEN List(Elems(m)) ELSE Tuple(Elems(m)))>>)

\* r = <word> in a state that binds one or two names, each to its own text;
\* the names are the texts over NameChars of 1..MaxName characters
MaxName == 3
NameChars == {"a", "b"}
RECURSIVE NamesOfLen(_)
NamesOfLen(n) == IF n = 0 THEN {""} ELSE {s \o c : s \in NamesOfLen(n - 1), c \in NameChars}
ShortNames == UNION {NamesOfLen(n) : n \in 1..MaxName}
ReadScript(word) == Script(<<"r = " \o word>>, <<Assign(1, Name("r"), Name(word))>>)
BoundNames(names) == [i \in 1..Len(names) |-> [k |-> names[i], v |-> StrV(names[i])]]

\* d = {<keys>: ...}; r = d[<key>]
KeyLists == {<<>>, <<StrV("ab")>>, <<StrV("ab"), StrV("a")>>, <<StrV("a"), StrV("b")>>,
             <<IntV(1)>>, <<StrV("ab"), IntV(1)>>}
ReadKeys == {StrV("ab"), StrV("abc"), StrV("zz"), StrV("a"), IntV(1)}
KeyText(key) == IF key.t = "str" THEN "'" \o key.s \o "'" ELSE ToString(key.n)
SubscriptScript(keys, key) ==
    Script(<<"d = {" \o Join([i \in 1..Len(keys) |-> KeyText(keys[i]) \o ": " \o ToString(i + 10)],
                             ", ") \o "}",
             "r = d[" \o KeyText(key) \o "]">>,
           <<Assign(1, Name("d"), Dict([i \in 1..Len(keys) |-> Constant(keys[i])],
                                       [i \in 1..Len(keys) |-> I(i + 10)])),
             Assign(2, Name("r"), Subscript(Name("d"), Constant(key)))>>)

\* total = 0; for <target> in <iterable>: total = total + <name>; mark(<name>)
MaxIter == 4
IterKinds == {"list", "tuple", "tools", "pairs"}
Adds(lineno, name) == Assign(lineno, Name("total"), BinOp(Name("total"), "Add", Name(name)))
PairNode(i) == Tuple(<<I(i), I(i + 1)>>)
PairText(i) == "(" \o ToString(i) \o ", " \o ToString(i + 1) \o ")"
NumbersText(n) == Join([i \in 1..n |-> ToString(i)], ", ")
ForScript(kind, n) ==
    CASE kind = "list" ->
            Script(<<"total = 0", "for v in [" \o NumbersText(n) \o "]:",
                     "    total = total + v", "    mark(v)">>,
                   <<Assign(1, Name("total"), I(0)),
                     For(2, Name("v"), List([i \in 1..n |-> I(i)]),
                         <<Adds(3, "v"), Expr(4, CallOf("mark", <<Name("v")>>))>>)>>)
      [] kind = "tuple" ->
            Script(<<"total = 0", "for v in (" \o NumbersText(n) \o ",):",
                     "    total = total + v", "    mark(v)">>,
                   <<Assign(1, Name("total"), I(0)),
                     For(2, Name("v"), Tuple([i \in 1..n |-> I(i)]),
                         <<Adds(3, "v"), Expr(4, CallOf("mark", <<Name("v")>>))>>)>>)
      [] kind = "tools" ->
            Script(<<"total = 0", "for v in [sideEffectB(), a(), " \o NumbersText(n) \o "]:",
                     "    total = total + v", "    mark(v)">>,
                   <<Assign(1, Name("total"), I(0)),
                     For(2, Name("v"),
                         List(<<CallOf("sideEffectB", <<>>), CallOf("a", <<>>)>>
                                  \o [i \in 1..n |-> I(i)]),
                         <<Adds(3, "v"), Expr(4, CallOf("mark", <<Name("v")>>))>>)>>)
      [] kind = "pairs" ->
            Script(<<"total = 0",
                     "for p, q in [" \o Join([i \in 1..n |-> PairText(i)], ", ") \o "]:",
                     "    total = total + q", "    mark(p)">>,
                   <<Assign(1, Name("total"), I(0)),
                     For(2, Tuple(<<Name("p"), Name("q")>>), List([i \in 1..n |-> PairNode(i)]),
                         <<Adds(3, "q"), Expr(4, CallOf("mark", <<Name("p")>>))>>)>>)
ForScripts == {ForScript(kind, n) : kind \in IterKinds, n \in 1..MaxIter}

\* imports, and an attribute read that is bound to a name
ImportKinds == {"import", "import_two", "from", "missing", "from_missing", "no_member",
                "attribute", "member"}
ImportScript(kind) ==
    CASE kind = "import" ->
            Script(<<"import math">>, <<Import(1, <<"math">>)>>)
      [] kind = "import_two" ->
            Script(<<"import math, nosuchmodule">>, <<Import(1, <<"math", "nosuchmodule">>)>>)
      [] kind = "from" ->
            Script(<<"from math import floor">>, <<ImportFrom(1, "math", <<"floor">>)>>)
      [] kind = "missing" ->
            Script(<<"import nosuchmodule">>, <<Import(1, <<"nosuchmodule">>)>>)
      [] kind = "from_missing" ->
            Script(<<"from nosuchmodule import floor">>,
                   <<ImportFrom(1, "nosuchmodule", <<"floor">>)>>)
      [] kind = "no_member" ->
            Script(<<"from math import floor, nosuchmember">>,
                   <<ImportFrom(1, "math", <<"floor", "nosuchmember">>)>>)
      [] kind = "attribute" ->
            Script(<<"l = [1]", "r = l.append">>,
                   <<Assign(1, Name("l"), List(<<I(1)>>)),
                     Assign(2, Name("r"), Attribute(Name("l"), "append"))>>)
      [] kind = "member" ->
            Script(<<"import math", "r = math.floor">>,
                   <<Import(1, <<"math">>),
                     Assign(2, Name("r"), Attribute(Name("math"), "floor"))>>)

\* x = <0 or 1>; assert x[, <message>], at top level or in a try
AssertKinds == {"plain", "message", "tool_message", "caught", "tool_condition"}
AssertNode(kind, lineno) ==
    CASE kind \in {"plain", "caught"} -> AssertStmt(lineno, Name("x"), NoNode)
      [] kind = "message" -> AssertStmt(lineno, Name("x"), S("x must be set"))
      [] kind = "tool_message" -> AssertStmt(lineno, Name("x"), CallOf("b", <<>>))
      [] kind = "tool_condition" -> AssertStmt(lineno, CallOf("a", <<>>), S("a failed"))
AssertText(kind) ==
    CASE kind \in {"plain", "caught"} -> "assert x"
      [] kind = "message" -> "assert x, 'x must be set'"
      [] kind = "tool_message" -> "assert x, b()"
      [] kind = "tool_condition" -> "assert a(), 'a failed'"
AssertScript(kind, x) ==
    IF kind = "caught"
    THEN Script(<<"x = " \o ToString(x), "try:", "    " \o AssertText(kind), "except:",
                  "    mark('h')", "mark('after')">>,
                <<Assign(1, Name("x"), I(x)),
                  Try(2, <<AssertNode(kind, 3)>>, <<ExceptHandler(NoNode, <<MarkS(5, "h")>>)>>,
                      <<>>),
                  MarkS(6, "after")>>)
    ELSE Script(<<"x = " \o ToString(x), AssertText(kind), "mark('after')">>,
                <<Assign(1, Name("x"), I(x)), AssertNode(kind, 2), MarkS(3, "after")>>)

\* target op= value after a first binding, for each operator the parser can
\* put into an augmented assignment that the scripts use:
\*   int:   x = 7; x op= 2            zero:  x = 7; x op= 0
\*   comp:  x = [1]; x op= [y for y in (2,)]
\*   close: ab = 7; abc op= 2         far:   ab = 7; xyz op= 2
AugOps == {"Add", "Sub", "Mult", "Div", "FloorDiv", "Mod", "Pow", "BitAnd"}
ArithText(op) ==
    CASE op = "Add" -> "+" [] op = "Sub" -> "-" [] op = "Mult" -> "*" [] op = "Div" -> "/"
      [] op = "FloorDiv" -> "//" [] op = "Mod" -> "%" [] op = "Pow" -> "**"
      [] op = "BitAnd" -> "&"
AugKinds == {"int", "zero", "comp", "close", "far"}
AugScript(op, kind) ==
    LET first == IF kind \in {"close", "far"} THEN "ab" ELSE "x"
        target == CASE kind = "close" -> "abc" [] kind = "far" -> "xyz" [] OTHER -> "x"
        value == CASE kind = "zero" -> "0" [] kind = "comp" -> "[y for y in (2,)]"
                   [] OTHER -> "2"
    IN  Script(<<first \o " = " \o (IF kind = "comp" THEN "[1]" ELSE "7"),
                 target \o " " \o ArithText(op) \o "= " \o value>>,
               <<Assign(1, Name(first), IF kind = "comp" THEN List(<<I(1)>>) ELSE I(7)),
                 AugAssign(2, Name(target), op,
                           CASE kind = "zero" -> I(0)
                             [] kind = "comp" -> ListComp(Name("y"), Name("y"), Tuple(<<I(2)>>))
                             [] OTHER -> I(2))>>)

\* a = <int>; b = <int>; r = a op b, for the operators of evaluate_binop and
\* two the parser accepts that it has no branch for.  A negative literal is
\* the unary minus of a constant.
BinOps == {"Add", "Sub", "Mult", "Div", "FloorDiv", "Mod", "Pow", "BitAnd", "LShift"}
BinText(op) == CASE op = "LShift" -> "<<" [] OTHER -> ArithText(op)
BinOperands == {-7, -2, 0, 2, 7}
IntNode(n) == IF n < 0 THEN UnaryOp("USub", I(-n)) ELSE I(n)
BinScript(op, a, b) ==
    Script(<<"a = " \o ToString(a), "b = " \o ToString(b), "r = a " \o BinText(op) \o " b">>,
           <<Assign(1, Name("a"), IntNode(a)), Assign(2, Name("b"), IntNode(b)),
             Assign(3, Name("r"), BinOp(Name("a"), op, Name("b")))>>)
\* r = <expression of literals>, with the tree the parser builds for it
ArithExamples == {"2 + 3 * 4", "2 * 3 + 4", "(2 + 3) * 4", "2 ** 10", "7 // 2", "7 % 2",
                  "-7 ** 2", "2 ** 3 ** 2", "7 - 2 - 2", "-7 // 2", "7 % -2"}
ExampleNode(text) ==
    CASE text = "2 + 3 * 4" -> BinOp(I(2), "Add", BinOp(I(3), "Mult", I(4)))
      [] text = "2 * 3 + 4" -> BinOp(BinOp(I(2), "Mult", I(3)), "Add", I(4))
      [] text = "(2 + 3) * 4" -> BinOp(BinOp(I(2), "Add", I(3)), "Mult", I(4))
      [] text = "2 ** 10" -> BinOp(I(2), "Pow", I(10))
      [] text = "7 // 2" -> BinOp(I(7), "FloorDiv", I(2))
      [] text = "7 % 2" -> BinOp(I(7), "Mod", I(2))
      [] text = "-7 ** 2" -> UnaryOp("USub", BinOp(I(7), "Pow", I(2)))
      [] text = "2 ** 3 ** 2" -> BinOp(I(2), "Pow", BinOp(I(3), "Pow", I(2)))
      [] text = "7 - 2 - 2" -> BinOp(BinOp(I(7), "Sub", I(2)), "Sub", I(2))
      [] text = "-7 // 2" -> BinOp(UnaryOp("USub", I(7)), "FloorDiv", I(2))
      [] text = "7 % -2" -> BinOp(I(7), "Mod", UnaryOp("USub", I(2)))
ExampleScript(text) == Script(<<"r = " \o text>>, <<Assign(1, Name("r"), ExampleNode(text))>>)

\* r = [<elt> for <target> in [...] <further clauses>], n values in the list:
\*   plain:       [v * 2 for v in [1, .., n]]
\*   filter:      [v * 2 for v in [1, .., n] if not v]
\*   filter_tool: [v * 2 for v in [1, .., n] if mark(v)]
\*   nested:      [v * 2 for v in [1, .., n] for w in [5, 6]]
\*   nested_elt:  [w for v in [1, .., n] for w in [5, 6]]
\*   pairs:       [p + q for p, q in [(1, 2), .., (n, n + 1)]]
\*   triples:     [p + q for p, q in [(1, 2, 3), .., (n, n + 1, n + 2)]]
CompKinds == {"plain", "filter", "filter_tool", "nested", "nested_elt", "pairs", "triples"}
TripleNode(i) == Tuple(<<I(i), I(i + 1), I(i + 2)>>)
TripleText(i) ==
    "(" \o ToString(i) \o ", " \o ToString(i + 1) \o ", " \o ToString(i + 2) \o ")"
CompNode(kind, n) ==
    LET numbers == List([i \in 1..n |-> I(i)])
        double == BinOp(Name("v"), "Mult", I(2))
        inner == comprehension(Name("w"), List(<<I(5), I(6)>>), <<>>)
        sum == BinOp(Name("p"), "Add", Name("q"))
        pq == Tuple(<<Name("p"), Name("q")>>)
    IN  CASE kind = "plain" -> ListComp(double, Name("v"), numbers)
          [] kind = "filter" ->
                ListCompOf(double, <<comprehension(Name("v"), numbers,
                                                   <<UnaryOp("Not", Name("v"))>>)>>)
          [] kind = "filter_tool" ->
                ListCompOf(double, <<comprehension(Name("v"), numbers,
                                                   <<CallOf("mark", <<Name("v")>>)>>)>>)
          [] kind = "nested" ->
                ListCompOf(double, <<comprehension(Name("v"), numbers, <<>>), inner>>)
          [] kind = "nested_elt" ->
                ListCompOf(Name("w"), <<comprehension(Name("v"), numbers, <<>>), inner>>)
          [] kind = "pairs" -> ListComp(sum, pq, List([i \in 1..n |-> PairNode(i)]))
          [] kind = "triples" -> ListComp(sum, pq, List([i \in 1..n |-> TripleNode(i)]))
CompText(kind, n) ==
    LET numbers == "[" \o NumbersText(n) \o "]"
    IN  CASE kind = "plain" -> "[v * 2 for v in " \o numbers \o "]"
          [] kind = "filter" -> "[v * 2 for v in " \o numbers \o " if not v]"
          [] kind = "filter_tool" -> "[v * 2 for v in " \o numbers \o " if mark(v)]"
          [] kind = "nested" -> "[v * 2 for v in " \o numbers \o " for w in [5, 6]]"
          [] kind = "nested_elt" -> "[w for v in " \o numbers \o " for w in [5, 6]]"
          [] kind = "pairs" ->
                "[p + q for p, q in [" \o Join([i \in 1..n |-> PairText(i)], ", ") \o "]]"
          [] kind = "triples" ->
                "[p + q for p, q in [" \o Join([i \in 1..n |-> TripleText(i)], ", ") \o "]]"
CompScript(kind, n) ==
    Script(<<"r = " \o CompText(kind, n)>>, <<Assign(1, Name("r"), CompNode(kind, n))>>)
CompScripts == {CompScript(kind, n) : kind \in CompKinds, n \in 0..MaxIter}

\* a function defined inside the body of another function of the script:
\*   tool:     mark(1); def g(): def mark(v): return 9 ...; g(); r = mark(2)
\*   inside:   def g(): def f(): return 5 ...; def h(): return f(); g(); r = h()
\*   uncalled: def g(): def f(): return 5 ...; r = f()
\*   twice:    def g(): w = 3; def f(): return w ...; g(); g(); r = f()
NestedKinds == {"tool", "inside", "uncalled", "twice"}
Nesting(lineno, inner, args, pre, value) ==
    FunctionDef(lineno, "g", <<>>, <<>>,
                pre \o <<FunctionDef(lineno + Len(pre) + 1, inner, args, <<>>,
                                     <<Return(lineno + Len(pre) + 2, value)>>),
                         Return(lineno + Len(pre) + 3, I(0))>>)
NestedScript(kind) ==
    CASE kind = "tool" ->
            Script(<<"mark(1)", "def g():", "    def mark(v):", "        return 9",
                     "    return 0", "g()", "r = mark(2)">>,
                   <<Expr(1, CallOf("mark", <<I(1)>>)),
                     Nesting(2, "mark", <<"v">>, <<>>, I(9)),
                     Expr(6, CallOf("g", <<>>)),
                     Assign(7, Name("r"), CallOf("mark", <<I(2)>>))>>)
      [] kind = "inside" ->
            Script(<<"def g():", "    def f():", "        return 5", "    return 0",
                     "def h():", "    return f()", "g()", "r = h()">>,
                   <<Nesting(1, "f", <<>>, <<>>, I(5)),
                     FunctionDef(5, "h", <<>>, <<>>, <<Return(6, CallOf("f", <<>>))>>),
                     Expr(7, CallOf("g", <<>>)),
                     Assign(8, Name("r"), CallOf("h", <<>>))>>)
      [] kind = "uncalled" ->
            Script(<<"def g():", "    def f():", "        return 5", "    return 0",
                     "r = f()">>,
                   <<Nesting(1, "f", <<>>, <<>>, I(5)),
                     Assign(5, Name("r"), CallOf("f", <<>>))>>)
      [] kind = "twice" ->
            Script(<<"def g():", "    w = 3", "    def f():", "        return w",
                     "    return 0", "g()", "g()", "r = f()">>,
                   <<Nesting(1, "f", <<>>, <<Assign(2, Name("w"), I(3))>>, Name("w")),
                     Expr(6, CallOf("g", <<>>)), Expr(7, CallOf("g", <<>>)),
                     Assign(8, Name("r"), CallOf("f", <<>>))>>)

\* x = <literal> and/or <literal> ..., the operands written as literals
LiteralTexts == {"0", "5", "'s'", "None", "[]"}
LiteralNode(text) ==
    CASE text = "0" -> I(0) [] text = "5" -> I(5) [] text = "'s'" -> S("s")
      [] text = "None" -> Constant(NoneV) [] text = "[]" -> List(<<>>)
LiteralBoolScript(op, texts) ==
    Script(<<"x = " \o Join(texts, IF op = "And" THEN " and " ELSE " or ")>>,
           <<Assign(1, Name("x"), BoolOp(op, [i \in 1..Len(texts) |-> LiteralNode(texts[i])]))>>)

\* a text that ast.parse rejects
BadScript ==
    [ok |-> FALSE, lines |-> <<"mark(1)", "x = (">>, body |-> <<>>,
     msg |-> "'(' was never closed (<unknown>, line 2)"]

\* ------------------------------------------------------------------------
\* The specification
\* ------------------------------------------------------------------------
Start(c, reg, env0) ==
    /\ code = c
    /\ pc = "parse"
    /\ idx = 0
    /\ envs = <<env0>>
    /\ objs = <<>>
    /\ funcs = <<>>
    /\ tools = Registry(reg)
    /\ log = <<>>
    /\ result = NoneV
    /\ line_result = NoneV
    /\ error = NoExc
    /\ retval = <<>>
    /\ stdout = <<>>

Bound(name, v) == <<[k |-> name, v |-> v]>>

Init ==
    \/ \E x \in 0..(MaxVal + 1), y \in 0..(MaxVal + 1) : Start(ExampleIf(x, y), AllTools, <<>>)
    \/ \E n \in CallNames, reg \in {AllTools, AllTools \o <<"len">>},
          env0 \in {<<>>, Bound("foo", HostV("mark")), Bound("mark", HostV("sideEffectA"))} :
            Start(CallScript(n), reg, env0)
    \/ \E x \in 0..(MaxVal + 1), y \in 0..(MaxVal + 1), trailing \in BOOLEAN :
            Start(ReturnScript(x, y, trailing), AllTools, <<>>)
    \/ \E body \in BodyKinds, handlers \in HandlerKinds :
          \E fin \in {f \in BOOLEAN : f \/ handlers # "none"} :
            Start(TryScript(body, handlers, fin), AllTools, <<>>)
    \/ \E op \in {"And", "Or"}, n \in 2..MaxOperands :
          \E names \in [1..n -> OperandTools] : Start(BoolScript(op, names), AllTools, <<>>)
    \/ \E n \in 1..MaxChain :
          \E ops \in [1..n -> CmpOps], vals \in [1..(n + 1) -> LastAtoms] :
            /\ \A i \in 1..n : vals[i] \in Atoms
            /\ \/ Start(CompareScript(vals, ops), AllTools, <<>>)
               \/ Start(IfScript(vals, ops), AllTools, <<>>)
    \/ \E op \in CmpOps \ {"Is", "IsNot"},
          env0 \in {<<>>, Bound("__name__", StrV("__main__")), Bound("__name__", StrV("lib"))} :
            \/ Start(GuardExprScript(op), AllTools, env0)
            \/ Start(GuardIfScript(op), AllTools, env0)
    \/ \E kind \in ErrorKinds : Start(ErrorScript(kind), AllTools, <<>>)
    \/ \E v \in 0..(MaxVal + 1) : Start(TailScript(v), AllTools, <<>>)
    \/ \E kind \in MutationKinds, fails \in BOOLEAN :
            Start(MutationScript(kind, fails), AllTools, <<>>)
    \/ \E kind \in ScopeKinds, reg \in {<<>>, AllTools} :
            Start(ScopeScript(kind), reg, <<>>)
    \/ \E kind \in CallKinds : Start(ArityScript(kind), AllTools, <<>>)
    \/ \E kind \in DefaultKinds : Start(DefaultScript(kind), AllTools, <<>>)
    \/ \E n \in 2..3, m \in 1..MaxUnpack, asList \in BOOLEAN, pre \in BOOLEAN :
            Start(UnpackScript(n, m, asList, pre), AllTools, <<>>)
    \/ \E word \in ShortNames, x \in ShortNames, y \in ShortNames :
            Start(ReadScript(word), AllTools, BoundNames(IF x = y THEN <<x>> ELSE <<x, y>>))
    \/ \E keys \in KeyLists, key \in ReadKeys : Start(SubscriptScript(keys, key), AllTools, <<>>)
    \/ \E kind \in IterKinds, n \in 1..MaxIter : Start(ForScript(kind, n), AllTools, <<>>)
    \/ \E kind \in ImportKinds, reg \in {<<>>, AllTools} :
            Start(ImportScript(kind), reg, <<>>)
    \/ \E kind \in AssertKinds, x \in 0..1 : Start(AssertScript(kind, x), AllTools, <<>>)
    \/ \E op \in AugOps, kind \in AugKinds, env0 \in {<<>>, Bound("abcd", IntV(1))} :
            Start(AugScript(op, kind), AllTools, env0)
    \/ \E op \in BinOps, a \in BinOperands, b \in BinOperands :
            Start(BinScript(op, a, b), AllTools, <<>>)
    \/ \E text \in ArithExamples : Start(ExampleScript(text), AllTools, <<>>)
    \/ \E kind \in CompKinds, n \in 0..MaxIter : Start(CompScript(kind, n), AllTools, <<>>)
    \/ \E kind \in NestedKinds, env0 \in {<<>>, Bound("f", IntV(1))} :
            Start(NestedScript(kind), AllTools, env0)
    \/ \E op \in {"And", "Or"}, n \in 2..(MaxOperands + 1) :
          \E texts \in [1..n -> LiteralTexts] :
            Start(LiteralBoolScript(op, texts), AllTools, <<>>)
    \/ \E reg \in {<<>>, AllTools}, env0 \in {<<>>, Bound("x", IntV(1))} :
            Start(BadScript, reg, env0)

Next ==
    \/ Parse
    \/ SyntaxFailure
    \/ StatementOk
    \/ StatementInterpretorError
    \/ StatementException
    \/ StatementBaseException
    \/ ReturnResult

Spec == Init /\ [][Next]_vars

\* ------------------------------------------------------------------------
\* Properties
\* ------------------------------------------------------------------------
Occurrences(text, sub) ==
    Cardinality({i \in 1..(Len(text) - Len(sub) + 1) : SubSeq(text, i, i + Len(sub) - 1) = sub})
Calls(l, name, args) == Cardinality({i \in 1..Len(l) : l[i].name = name /\ l[i].args = args})
\* the statement at hand is a call of a plain name, as an expression statement
PlainCall == AtStatement /\ node.k = "Expr" /\ node.value.k = "Call" /\ node.value.func.k = "Name"

\* C1: a call of a plain name that is neither in the tool registry nor in the
\* state fails with the InterpretorError of a disallowed call target, whether
\* or not the host has a built-in of that name; nothing is invoked (the log of
\* host calls, the state and the registry are as before).
C1_UnknownCallFailsClosed ==
    [][(PlainCall /\ ~Has(tools, node.value.func.id) /\ ~Has(state, node.value.func.id))
        => /\ pc' = "raised"
           /\ error'.cls = "InterpretorError"
           /\ Contains(error'.msg, "It is not permitted to evaluate other functions")
           /\ log' = log
           /\ envs' = envs
           /\ tools' = tools]_vars
C1_Witness ==
    /\ pc = "raised"
    /\ idx = 2
    /\ code.lines[2] = "len(mark(2))"
    /\ "len" \in HostBuiltins
    /\ ~Has(tools, "len")
    /\ ~Has(state, "len")
    /\ log = <<[name |-> "mark", args |-> <<IntV(1)>>]>>

\* C2: evaluate runs the top-level statements in order against the one state,
\* keeps as result the value of the last statement whose value is not None,
\* and returns (result, state) with every top-level binding in the state; the
\* script x = 1; y = 2; if x < y: z = x + y else: z = 0 returns 3 and
\* {x: 1, y: 2, z: 3}, and x = 2; pass; mark(0) returns 2.
C2_ResultAndState ==
    [][/\ (AtStatement /\ pc' = "loop")
            => /\ idx' = idx + 1
               /\ result' = IF line_result'.t # "none" THEN line_result' ELSE result
       /\ (pc = "loop" /\ pc' = "returned")
            => /\ idx = Len(code.body) + 1
               /\ retval' = <<result, state>>
               /\ \A i \in 1..Len(code.body) :
                    (code.body[i].k = "Assign" /\ code.body[i].target.k = "Name")
                        => Has(state, code.body[i].target.id)
       /\ (pc' = "returned" /\ code.lines[1] = "x = 1" /\ code.lines[2] = "y = 2"
                /\ code.lines[3] = "if x < y:")
            => retval' = <<IntV(3), <<[k |-> "x", v |-> IntV(1)], [k |-> "y", v |-> IntV(2)],
                                      [k |-> "z", v |-> IntV(3)]>> >>
       /\ (pc' = "returned" /\ code.lines[1] = "x = 2" /\ code.lines[2] = "pass")
            => retval'[1] = IntV(2)]_vars
C2_Witness ==
    /\ pc = "returned"
    /\ code.lines = <<"x = 1", "y = 2", "if x < y:", "    z = x + y", "else:", "    z = 0">>
    /\ retval[1] = IntV(3)
    /\ Len(retval[2]) = 3

\* C3: in a call of a script-defined function the body stops at the first
\* return that is executed: def add(a, b): return a + b; mark(0) called as
\* add(x, y) yields x + y and never calls mark.
C3_ReturnStopsBody ==
    (/\ pc = "returned"
     /\ Len(code.body) = 2
     /\ code.body[1].k = "FunctionDef"
     /\ code.body[1].body[1].k = "Return"
     /\ code.body[2].k = "Expr")
        => /\ result = IntV(code.body[2].value.args[1].value.n + code.body[2].value.args[2].value.n)
           /\ Calls(log, "mark", <<IntV(0)>>) = 0

\* C4: a try statement with a finally body runs that body exactly once each
\* time the statement is executed, whether the try body succeeds, raises an
\* error that a handler takes, or raises one that no handler takes.
C4_FinallyOnce ==
    [][(AtStatement /\ node.k = "Try" /\ Len(node.finalbody) > 0)
        => Calls(log', "mark", <<StrV("fin")>>) = Calls(log, "mark", <<StrV("fin")>>) + 1]_vars
C4_Witness ==
    /\ pc = "raised"
    /\ idx = 2
    /\ code.body[2].k = "Try"
    /\ Len(code.body[2].handlers) = 0
    /\ Calls(log, "mark", <<StrV("fin")>>) = 1
    /\ Calls(log, "boom", <<>>) = 1

\* the first handler, in declaration order, whose declared type is a class of
\* the error cls (0 if there is none); None declares the catch-all
DeclaredFor(handler, cls) ==
    \/ handler.type.k = "None"
    \/ /\ handler.type.k = "Name"
       /\ \/ handler.type.id = cls
          \/ handler.type.id = "Exception"
          \/ handler.type.id = "ValueError" /\ cls = "InterpretorError"
FirstDeclaredFor(handlers, cls) ==
    IF \E i \in 1..Len(handlers) : DeclaredFor(handlers[i], cls)
    THEN CHOOSE i \in 1..Len(handlers) :
            /\ DeclaredFor(handlers[i], cls)
            /\ \A j \in 1..(i - 1) : ~DeclaredFor(handlers[j], cls)
    ELSE 0
\* C5: when the try body raises, the body of the first handler that declares
\* the class of the error (or no class) runs, the error is handled and no
\* later handler runs; when no handler declares it the original error
\* propagates after the finally body.
C5_FirstMatchingHandlerRuns ==
    [][(AtStatement /\ node.k = "Try")
        => LET body == ExecStmts(node.body, GlobalEnv, Store)
               first == FirstDeclaredFor(node.handlers, body.exc.cls)
           IN  (Raised(body) /\ IsException(body.exc.cls))
                => IF first = 0
                   THEN /\ pc' = "raised"
                        /\ Contains(error'.msg, body.exc.msg)
                        /\ Len(node.finalbody) > 0 => Calls(log', "mark", <<StrV("fin")>>) = 1
                   ELSE LET handled == ExecStmts(node.handlers[first].body, GlobalEnv, body.st)
                        IN  ~Raised(handled)
                                => /\ pc' = "loop"
                                   /\ log' = handled.st.log
                                        \o (IF Len(node.finalbody) > 0
                                            THEN <<[name |-> "mark", args |-> <<StrV("fin")>>]>>
                                            ELSE <<>>)]_vars

\* C6: an and/or expression evaluates every operand, in order, whatever the
\* earlier operands yield: x = f() or g() calls f and then g even when f() is
\* truthy, and x = f() and g() calls both even when f() is falsy.
C6_BoolOpEvaluatesAll ==
    [][(/\ AtStatement /\ node.k = "Assign" /\ node.value.k = "BoolOp"
        /\ \A i \in 1..Len(node.value.values) : node.value.values[i].k = "Call")
        => log' = log \o [i \in 1..Len(node.value.values) |->
                            [name |-> node.value.values[i].func.id, args |-> <<>>]]]_vars
C6_Witness ==
    /\ pc = "loop"
    /\ idx = 2
    /\ code.lines = <<"x = sideEffectA() or sideEffectB()">>
    /\ log = <<[name |-> "sideEffectA", args |-> <<>>], [name |-> "sideEffectB", args |-> <<>>]>>
    /\ Get(state, "x") = BoolV(TRUE)

\* the constant an operand node of the comparison scripts stands for
AtomVal(n) ==
    IF n.k = "Tuple" THEN TupleV([i \in 1..Len(n.elts) |-> n.elts[i].value]) ELSE n.value
\* whether a op b holds, for integers, None and a tuple of them, as the host
\* language defines it (an order between None and anything does not hold)
PairHolds(op, a, b) ==
    CASE op = "Eq" -> a = b
      [] op = "NotEq" -> a # b
      [] op = "Lt" -> a.t = "int" /\ b.t = "int" /\ a.n < b.n
      [] op = "LtE" -> a.t = "int" /\ b.t = "int" /\ a.n <= b.n
      [] op = "Gt" -> a.t = "int" /\ b.t = "int" /\ a.n > b.n
      [] op = "GtE" -> a.t = "int" /\ b.t = "int" /\ a.n >= b.n
      [] op = "In" -> b.t = "tuple" /\ \E i \in 1..Len(b.xs) : b.xs[i] = a
      [] op = "NotIn" -> b.t = "tuple" /\ \A i \in 1..Len(b.xs) : b.xs[i] # a
      [] op = "Is" -> a = b
      [] op = "IsNot" -> a # b
ConstantOperands(c) ==
    /\ c.left.k \in {"Constant", "Tuple"}
    /\ \A i \in 1..Len(c.comparators) : c.comparators[i].k \in {"Constant", "Tuple"}
Operand(c, i) == AtomVal(IF i = 0 THEN c.left ELSE c.comparators[i])

\* C7: r = e0 op1 e1 ... opn en binds r to true exactly when every adjacent
\* pair e(i-1) op_i e_i holds, for ==, !=, <, <=, >, >=, in, not in, is and
\* is not; 1 < 2 < 3 is true and 1 < 2 < 0 is false.
C7_ChainIsPairwiseAnd ==
    [][(AtStatement /\ node.k = "Assign" /\ node.value.k = "Compare"
            /\ ConstantOperands(node.value))
        => LET c == node.value
           IN  (pc' = "loop" /\ Has(state', "r") /\ Get(state', "r") = BoolV(TRUE))
                <=> \A i \in 1..Len(c.ops) : PairHolds(c.ops[i], Operand(c, i - 1), Operand(c, i))
      ]_vars
C7_Witness ==
    /\ pc = "loop"
    /\ idx = 2
    /\ code.lines = <<"r = 0 <= 1 > 0">>
    /\ Get(state, "r") = BoolV(TRUE)

\* whether a test has the shape that evaluate_ast takes for a main guard
GuardShaped(test) ==
    /\ test.left.k = "Name"
    /\ test.left.id = "__name__"
    /\ test.comparators[1].k = "Constant"
    /\ test.comparators[1].value = StrV("__main__")
\* what the comparison C of the if statement at hand yields as an expression
AsExpression == evaluate_compare(node.test, GlobalEnv, Store)
\* the statement at hand is: if C: t = 1 else: t = 0, C a comparison
IfOnComparison ==
    /\ AtStatement
    /\ node.k = "If"
    /\ node.test.k = "Compare"
    /\ node.body = <<Assign(node.lineno + 1, Name("t"), I(1))>>
    /\ node.orelse = <<Assign(node.lineno + 3, Name("t"), I(0))>>
Agrees ==
    IF Raised(AsExpression) THEN pc' = "raised" /\ ~Has(state', "t")
    ELSE /\ pc' = "loop"
         /\ Get(state', "t") = IF AsExpression.v.b THEN IntV(1) ELSE IntV(0)

LaterMarks ==
    {code.body[j].value.args[1].value : j \in
        {i \in (idx + 1)..Len(code.body) :
            /\ code.body[i].k = "Expr"
            /\ code.body[i].value.k = "Call"
            /\ code.body[i].value.func.k = "Name"
            /\ code.body[i].value.func.id = "mark"}}
NoLaterStatementRan ==
    \A i \in 1..Len(log) :
        (log[i].name = "mark" /\ Len(log[i].args) = 1) => log[i].args[1] \notin LaterMarks

\* C9: when a top-level statement raises an error that the script does not
\* catch, evaluate ends by raising: it takes no further step, returns
\* nothing, and no later top-level statement has run.
C9_StopsAtFirstError ==
    [][/\ pc # "raised"
       /\ (AtStatement /\ Raised(Outcome))
            => /\ pc' = "raised"
               /\ error'.cls # ""
               /\ idx' = idx
               /\ retval' = <<>>
               /\ NoLaterStatementRan']_vars
C9_Witness ==
    /\ pc = "raised"
    /\ idx = 3
    /\ code.lines[4] = "x = 1 / 0"
    /\ error.cls = "Exception"
    /\ log = <<[name |-> "mark", args |-> <<IntV(1)>>]>>

\* the message names the line of the statement and carries its source text
CarriesLineAndText(msg, lineno) ==
    /\ Contains(msg, "stopped at line " \o ToString(lineno) \o " before")
    /\ Contains(msg, "Error occurred at line " \o ToString(lineno) \o ": " \o code.lines[lineno])
    /\ Occurrences(msg, "Evaluation of the code stopped") = 1

\* C10 as claimed: every error that escapes a top-level statement reaches the
\* caller as one InterpretorError whose message carries the line number and
\* the source text of that statement.
C10_AlwaysInterpretorError ==
    pc = "raised"
        => /\ error.cls = "InterpretorError"
           /\ CarriesLineAndText(error.msg, code.body[idx].lineno)

\* C10 as amended: every error of the Exception hierarchy that escapes a
\* top-level statement reaches the caller as one error whose message carries
\* its own message, the line number and the source text of that statement; it
\* is an InterpretorError when the escaping error is one and a plain
\* Exception otherwise.
C10_WrappedOnceWithLineAndText ==
    [][(AtStatement /\ Raised(Outcome) /\ IsException(Outcome.exc.cls))
        => /\ pc' = "raised"
           /\ error'.cls = IF Outcome.exc.cls = "InterpretorError" THEN "InterpretorError"
                           ELSE "Exception"
           /\ Contains(error'.msg, Outcome.exc.msg)
           /\ CarriesLineAndText(error'.msg, node.lineno)]_vars
C10_Witness ==
    /\ pc = "raised"
    /\ error.cls = "Exception"
    /\ code.body[idx].lineno = 4
    /\ idx = 3
    /\ Contains(error.msg, "Error occurred at line 4: boom()")

CallOfScriptFunction ==
    /\ PlainCall
    /\ Has(tools, node.value.func.id)
    /\ Get(tools, node.value.func.id).t = "func"
\* the lists and dicts that the names of a state are bound to
Referenced(env) == {env[i].v.a : i \in {j \in 1..Len(env) : env[j].v.t \in {"list", "dict"}}}

\* C12: a call of a script-defined function leaves the caller's environment
\* as it was, whether the call returns or fails and whatever the body does
\* (name assignment, augmented assignment, subscript assignment into a
\* mapping, loop target, comprehension target): the same names are bound to
\* the same values, the contents of a bound mapping included.
C12_BodyMutationsDoNotEscape ==
    [][CallOfScriptFunction
        => /\ state' = state
           /\ \A a \in Referenced(state) : objs'[a] = objs[a]]_vars

\* the statement at hand is the last one of a ScopeScript, r = f() or
\* r = g(): the body of f binds nothing and g binds nothing after its call
\* of f, so the environment the call of f made, the last of envs', is as
\* the call made it
ScopeCall == AtStatement /\ code \in ScopeScripts /\ idx = Len(code.body)
CalleeEnv == envs'[Len(envs')]
\* the environment f is called from, as it is at the moment of the call:
\* the environment of evaluate when the statement calls f itself, that of
\* g (made by the same statement, just before that of f) otherwise
CallerEnv == IF Len(envs') = Len(envs) + 1 THEN state ELSE envs'[Len(envs') - 1]
\* the environment that evaluated the definition of f
DefinitionEnv == envs[funcs[Get(tools, "f").f].state]

\* C13 (as stated): the environment of a called script function starts as a
\* copy of the caller's environment as it is at the moment of the call, the
\* locals of a calling script function included.
C13_CalleeCopiesCallerEnv == [][ScopeCall => CalleeEnv = CallerEnv]_vars

\* C13 (amended): the environment of a called script function starts as a
\* copy of the environment that evaluated its definition, as that
\* environment is at the moment of the call: names bound or rebound there
\* after the definition are copied, the locals of a calling script function
\* are not.
C13_CalleeCopiesDefinitionEnv ==
    [][ScopeCall => /\ Len(envs') > Len(envs)
                    /\ CalleeEnv = DefinitionEnv]_vars
\* r = g() has returned 1, the z of the environment of evaluate, while the
\* caller g of f bound its own z to 7
C13_Witness ==
    /\ code = ScopeScript("caller_shadow") /\ pc = "returned"
    /\ Get(state, "r") = IntV(1) /\ Get(state, "z") = IntV(1)
    /\ Len(envs) = 3 /\ Get(envs[2], "z") = IntV(7) /\ Get(envs[3], "z") = IntV(1)

\* the closure the call at hand invokes, and what the call passes to it
Callee == funcs[Get(tools, node.value.func.id).f]
Required == SubSeq(Callee.parameters, 1, Len(Callee.parameters) - Len(Callee.defaults))
KeywordNames == {node.value.keywords[i].arg : i \in 1..Len(node.value.keywords)}
MissingRequired ==
    \E i \in 1..Len(Required) : i > Len(node.value.args) /\ Required[i] \notin KeywordNames
TooManyPositional == Len(node.value.args) > Len(Callee.parameters)
UnknownKeyword ==
    \E k \in KeywordNames : \A i \in 1..Len(Callee.parameters) : Callee.parameters[i] # k

\* C14: a call of a script-defined function in which a required parameter
\* (one without default) receives no argument, or that passes more
\* positional arguments than there are parameters, or a keyword that names
\* no parameter, fails with an InterpretorError before any statement of the
\* body is evaluated (no tool is invoked).
C14_BadCallFailsBeforeBody ==
    [][(CallOfScriptFunction /\ (MissingRequired \/ TooManyPositional \/ UnknownKeyword))
        => /\ pc' = "raised"
           /\ error'.cls = "InterpretorError"
           /\ log' = log]_vars

\* the statement at hand is r = f() of a DefaultScript: f(a=<default>)
\* returns its parameter and the call passes no argument
DefaultedCall ==
    /\ AtStatement /\ code \in DefaultScripts /\ node.k = "Assign"
    /\ node.value.k = "Call"
    /\ node.value.args = <<>> /\ node.value.keywords = <<>>

\* C15: a default is evaluated once, when the definition is evaluated; a
\* call that passes no argument for a defaulted parameter binds it to that
\* value, whatever the environment holds at the time of the call: nothing
\* is evaluated again (no tool is invoked) and the body reads the value the
\* definition computed.
C15_DefaultAppliesAtCall ==
    [][DefaultedCall => /\ pc' = "loop"
                        /\ log' = log
                        /\ Get(state', "r") = Callee.defaults[1]]_vars

\* some script-defined function holds a function definition in its body
HasNestedDef ==
    \E i \in 1..Len(funcs) : \E j \in 1..Len(funcs[i].body) : funcs[i].body[j].k = "FunctionDef"
\* the body of the called function starts with a call of the tool mark
BodyMarks ==
    /\ Len(Callee.body) > 0 /\ Callee.body[1].k = "Expr"
    /\ Callee.body[1].value.k = "Call" /\ Callee.body[1].value.func.k = "Name"
    /\ Callee.body[1].value.func.id = "mark"

\* C16: the registry changes only when a function definition is evaluated.
\* A function-definition statement binds the new function under its name in
\* both the environment and the registry, and a later plain call of that
\* name runs its body; a statement of any other kind leaves the registry as
\* it was, unless it calls a function whose body holds a definition, and no
\* statement changes the registry without a definition being evaluated.
C16_RegistryChangesOnDefOnly ==
    [][AtStatement
        => /\ Len(funcs') = Len(funcs) => tools' = tools
           /\ (node.k # "FunctionDef" /\ ~HasNestedDef) => tools' = tools
           /\ (node.k = "FunctionDef" /\ pc' = "loop")
                => /\ tools' = Put(tools, node.name, FuncV(Len(funcs')))
                   /\ Get(state', node.name) = FuncV(Len(funcs'))
                   /\ Len(funcs') = Len(funcs) + 1
                   /\ funcs'[Len(funcs')].body = node.body
           /\ (node.k = "FunctionDef" /\ pc' # "loop") => tools' = tools
           /\ (CallOfScriptFunction /\ BodyMarks
                 /\ ~(MissingRequired \/ TooManyPositional \/ UnknownKeyword))
                => /\ Len(log') > Len(log)
                   /\ log'[Len(log) + 1].name = "mark"]_vars
\* f was defined by the script, is bound in the state and in the registry,
\* and its call f(1) has run the body
C16_Witness ==
    /\ code = ArityScript("one") /\ pc = "returned"
    /\ Has(tools, "f") /\ Get(tools, "f") = Get(state, "f") /\ Get(tools, "f").t = "func"
    /\ Len(log) = 1 /\ log[1].name = "mark" /\ log[1].args = <<IntV(1)>>

\* the statement at hand assigns a tuple or list display of constants to a
\* tuple of names
TupleAssign ==
    /\ AtStatement /\ node.k = "Assign" /\ node.target.k = "Tuple"
    /\ \A i \in 1..Len(node.target.elts) : node.target.elts[i].k = "Name"
    /\ node.value.k \in {"Tuple", "List"}
    /\ \A i \in 1..Len(node.value.elts) : node.value.elts[i].k = "Constant"

\* C17: an assignment to a tuple of names fails with an arity-mismatch
\* InterpretorError when the number of names differs from the length of
\* the evaluated right-hand tuple or list, and then binds or rebinds no
\* name; when the lengths are equal it binds each name to the element at
\* the same position.
C17_TupleTargetArity ==
    [][TupleAssign
        => IF Len(node.target.elts) # Len(node.value.elts)
           THEN /\ pc' = "raised"
                /\ error'.cls = "InterpretorError"
                /\ Contains(error'.msg, "Expected " \o ToString(Len(node.target.elts))
                                            \o " values but got "
                                            \o ToString(Len(node.value.elts)))
                /\ state' = state
           ELSE /\ pc' = "loop"
                /\ \A i \in 1..Len(node.target.elts) :
                      Get(state', node.target.elts[i].id) = node.value.elts[i].value
                /\ \A i \in 1..Len(state) :
                      (\A j \in 1..Len(node.target.elts) : node.target.elts[j].id # state[i].k)
                          => Get(state', state[i].k) = state[i].v]_vars
\* a, b = (5, 6, 7) failed and left a bound to 0, b unbound
C17_Witness ==
    /\ code = UnpackScript(2, 3, FALSE, TRUE) /\ pc = "raised"
    /\ error.cls = "InterpretorError"
    /\ state = Bound("a", IntV(0))
\* a, b, c = [5, 6, 7] bound the three names in order, rebinding a
C17_WitnessBound ==
    /\ code = UnpackScript(3, 3, TRUE, TRUE) /\ pc = "returned"
    /\ Get(state, "a") = IntV(5) /\ Get(state, "b") = IntV(6) /\ Get(state, "c") = IntV(7)

\* y is x with one character replaced
Substitution(x, y) ==
    /\ Len(x) = Len(y)
    /\ Cardinality({i \in 1..Len(x) : SubSeq(x, i, i) # SubSeq(y, i, i)}) = 1
\* y is x with one character removed
Deletion(x, y) ==
    /\ Len(x) = Len(y) + 1
    /\ \E i \in 1..Len(x) : SubSeq(x, 1, i - 1) \o SubSeq(x, i + 1, Len(x)) = y
\* the edit distance of x and y is 1
EditDistance1(x, y) == Substitution(x, y) \/ Deletion(x, y) \/ Deletion(y, x)
RECURSIVE Lcs(_, _)
\* the length of the longest common subsequence of x and y
Lcs(x, y) ==
    IF Len(x) = 0 \/ Len(y) = 0 THEN 0
    ELSE IF Head(x) = Head(y) THEN 1 + Lcs(Tail(x), Tail(y))
    ELSE IF Lcs(Tail(x), y) >= Lcs(x, Tail(y)) THEN Lcs(Tail(x), y) ELSE Lcs(x, Tail(y))
\* x is more similar to word than y is: twice the common characters over
\* the total of the lengths
MoreSimilar(word, x, y) ==
    2 * Lcs(x, word) * (Len(y) + Len(word)) > 2 * Lcs(y, word) * (Len(x) + Len(word))
\* x is similar enough to word to be a candidate
Similar(word, x) == 10 * 2 * Lcs(x, word) >= 6 * (Len(x) + Len(word))

\* the statement at hand is r = <word>, word not bound in the state
UnboundRead ==
    /\ AtStatement /\ node.k = "Assign" /\ node.target.k = "Name" /\ node.value.k = "Name"
    /\ ~Has(state, node.value.id)
\* the names bound in the state, and those at edit distance 1 of the word
Bindings == {state[i].k : i \in 1..Len(state)}
Neighbours == {x \in Bindings : EditDistance1(x, node.value.id)}
\* the read has returned the value of the bound name x
ResolvesTo(x) == pc' = "loop" /\ Get(state', node.target.id) = Get(state, x)
Undefined ==
    /\ pc' = "raised" /\ error'.cls = "InterpretorError"
    /\ Contains(error'.msg, "is not defined")

\* C18 (as stated): a read of an unbound name within edit distance 1 of
\* exactly one bound name returns the value of that bound name.
C18_EditDistanceOneResolves ==
    [][UnboundRead => \A x \in Neighbours : Neighbours = {x} => ResolvesTo(x)]_vars

\* y is x with its first or its last character removed
EndDeletion(x, y) ==
    /\ Len(x) = Len(y) + 1
    /\ SubSeq(x, 1, Len(y)) = y \/ SubSeq(x, 2, Len(x)) = y
\* word and every bound name have at most three characters
ShortRead == Len(node.value.id) <= 3 /\ \A x \in Bindings : Len(x) <= 3

\* C18 (amended): a read of an unbound name returns the value of a bound
\* name only if the two are similar (twice the characters in common, over
\* the sum of the lengths, is at least 0.6) and fails with an
\* InterpretorError when no bound name is.  Edit distance 1 is not the
\* criterion.  For x the one bound name within edit distance 1 of the name
\* read and more similar to it than every other bound name:
\*   - the read returns the value of x when the two differ by one character
\*     added or removed at either end;
\*   - in names of at most three characters, it returns the value of x
\*     unless the two are shorter than three characters and differ by one
\*     replaced character;
\*   - when the two are shorter than three characters and differ by one
\*     replaced character, x is not similar and, being the only bound
\*     name, the read fails.
C18_SimilarityResolves ==
    [][UnboundRead
        => /\ \A x \in Bindings : ResolvesTo(x) => \E y \in Bindings :
                                                      /\ Get(state, y) = Get(state, x)
                                                      /\ Similar(node.value.id, y)
           /\ (\A x \in Bindings : ~Similar(node.value.id, x)) => Undefined
           /\ \A x \in Neighbours :
                 ( /\ Neighbours = {x}
                   /\ \A y \in Bindings \ {x} : MoreSimilar(node.value.id, x, y) )
                    => /\ (EndDeletion(x, node.value.id) \/ EndDeletion(node.value.id, x))
                            => ResolvesTo(x)
                       /\ (ShortRead /\ (~Substitution(x, node.value.id) \/ Len(x) >= 3))
                            => ResolvesTo(x)
                       /\ (Substitution(x, node.value.id) /\ Len(x) < 3 /\ Bindings = {x})
                            => Undefined]_vars
\* r = ab, read where only abb is bound, has bound r to the value of abb
C18_Witness ==
    /\ code = ReadScript("ab") /\ pc = "returned"
    /\ Keys(state) = <<"abb", "r">> /\ Get(state, "r") = StrV("abb")
\* r = aa, read where only ab is bound, has failed
C18_WitnessUndefined ==
    /\ code = ReadScript("aa") /\ pc = "raised" /\ Keys(state) = <<"ab">>
    /\ error.cls = "InterpretorError"

\* the bindings of the state, bound in the opposite order
ReversedState == [i \in 1..Len(state) |-> state[Len(state) + 1 - i]]
\* the read at hand, evaluated where the state is env
ReadIn(env) == evaluate_name(node.value, GlobalEnv, [Store EXCEPT !.envs[GlobalEnv] = env])
\* x and y have the same score for word, and one that passes the cutoff
Tied(word, x, y) ==
    /\ Ratio(x, word)[1] * Ratio(y, word)[2] = Ratio(y, word)[1] * Ratio(x, word)[2]
    /\ AboveCutoff(Ratio(x, word))

\* C19: a read of an unbound name resolves to the same bound name in every
\* environment with the same bindings, whatever the order in which they
\* were bound; of two bound names with the same score for the name read,
\* it is the one that is greater as a text.
C19_TiesResolveDeterministically ==
    [][UnboundRead
        => /\ pc' = "loop" => /\ ~Raised(ReadIn(ReversedState))
                              /\ Get(state', node.target.id) = ReadIn(ReversedState).v
           /\ pc' = "raised" => Raised(ReadIn(ReversedState))
           /\ \A x \in Bindings, y \in Bindings :
                 (Bindings = {x, y} /\ StrLess(x, y) /\ Tied(node.value.id, x, y))
                    => ResolvesTo(y)]_vars
\* r = ab, read where a and then b are bound, both as similar to ab, has
\* bound r to the value of b
C19_Witness ==
    /\ code = ReadScript("ab") /\ pc = "returned"
    /\ Keys(state) = <<"a", "b", "r">> /\ Get(state, "r") = StrV("b")

\* the statement at hand is r = d[<constant>], d bound to a mapping
MappingRead ==
    /\ AtStatement /\ node.k = "Assign" /\ node.target.k = "Name"
    /\ node.value.k = "Subscript" /\ node.value.value.k = "Name"
    /\ node.value.slice.k = "Constant"
    /\ Has(state, node.value.value.id) /\ Get(state, node.value.value.id).t = "dict"
\* the mapping read, the key read, and the text keys of the mapping
Mapping == objs[Get(state, node.value.value.id).a].kv
ReadKey == node.value.slice.value
KeyPresent == \E i \in 1..Len(Mapping) : Mapping[i].k = ReadKey
IsTextEntry(entry) == entry.k.t = "str"
TextEntries == SelectSeq(Mapping, IsTextEntry)
\* the text keys that are close to the key read, the closest first, found
\* as name resolution finds the names close to a name
CloseKeys == get_close_matches(ReadKey.s, KeyTexts(TextEntries))
ReadReturns(v) == pc' = "loop" /\ Get(state', node.target.id) = v
\* the mapping is as it was, and still what the name is bound to
MappingUnchanged ==
    /\ Get(state', node.value.value.id) = Get(state, node.value.value.id)
    /\ objs'[Get(state, node.value.value.id).a] = objs[Get(state, node.value.value.id).a]

\* C20: a subscript read on a mapping returns the value stored under the
\* key when the key is present; when a text key is absent it returns the
\* value of the closest matching key if there is one and fails with an
\* InterpretorError otherwise; the read never changes the mapping.
C20_MappingRead ==
    [][MappingRead
        => /\ KeyPresent => ReadReturns(DictGet(Mapping, ReadKey, Store))
           /\ (~KeyPresent /\ ReadKey.t = "str")
                => IF Len(CloseKeys) > 0
                   THEN ReadReturns(DictGet(Mapping, StrV(CloseKeys[1]), Store))
                   ELSE pc' = "raised" /\ error'.cls = "InterpretorError"
           /\ MappingUnchanged]_vars
\* the same, for the mappings all of whose keys are texts
MappingReadOnTextKeys ==
    [][(MappingRead /\ \A i \in 1..Len(Mapping) : Mapping[i].k.t = "str")
        => /\ KeyPresent => ReadReturns(DictGet(Mapping, ReadKey, Store))
           /\ (~KeyPresent /\ ReadKey.t = "str")
                => IF Len(CloseKeys) > 0
                   THEN ReadReturns(DictGet(Mapping, StrV(CloseKeys[1]), Store))
                   ELSE pc' = "raised" /\ error'.cls = "InterpretorError"
           /\ MappingUnchanged]_vars

\* the statement at hand is the loop of a ForScript
ForStatement == AtStatement /\ node.k = "For" /\ code \in ForScripts
\* the iterable of the loop, evaluated once where the statement starts, and
\* the values it produces
Iterable == evaluate_ast(node.iter, GlobalEnv, Store)
Produced == Items(Iterable.v, Iterable.st)
\* what the body reads of the i-th value: the value, or its items p and q
Added(i) == IF node.target.k = "Tuple" THEN Produced[i].xs[2] ELSE Produced[i]
Marked(i) == IF node.target.k = "Tuple" THEN Produced[i].xs[1] ELSE Produced[i]
RECURSIVE SumTo(_)
SumTo(i) == IF i = 0 THEN 0 ELSE SumTo(i - 1) + Added(i).n

\* C21: a for loop evaluates its iterable once (the tools it calls are
\* called once, before the first iteration), then for each value
\* produced, in order, binds the target (the names of a tuple target to
\* the items of the value) and executes each statement of the body once:
\* total ends as the sum of the values, mark is called once per value in
\* order, and the target stays bound to the last value.
C21_ForEachValueOnceInOrder ==
    [][ForStatement
        => /\ pc' = "loop"
           /\ Get(state', "total") = IntV(SumTo(Len(Produced)))
           /\ log' = Iterable.st.log
                        \o [i \in 1..Len(Produced) |-> [name |-> "mark", args |-> <<Marked(i)>>]]
           /\ IF node.target.k = "Tuple"
              THEN /\ Get(state', "p") = Produced[Len(Produced)].xs[1]
                   /\ Get(state', "q") = Produced[Len(Produced)].xs[2]
              ELSE Get(state', "v") = Produced[Len(Produced)]]_vars
\* total = 0; for v in [1, 2, 3, 4]: total = total + v; mark(v) has ended
\* with total = 10
C21_Witness ==
    /\ code = ForScript("list", 4) /\ pc = "returned"
    /\ Get(state, "total") = IntV(10) /\ Get(state, "v") = IntV(4)
    /\ Len(log) = 4 /\ log[4].args = <<IntV(4)>>

\* the name called is bound to a callable in the state
BoundToCallable ==
    /\ Has(state, node.value.func.id)
    /\ Get(state, node.value.func.id).t \in {"host", "func", "method"}
NotPermitted ==
    /\ pc' = "raised" /\ error'.cls = "InterpretorError"
    /\ Contains(error'.msg, "It is not permitted to evaluate other functions")
\* the last call made to a host callable is a call of the callable v
LastCallIs(v) == Len(log') > Len(log) /\ log'[Len(log')].name = v.name

\* C22 (as stated): a plain call of a name that is bound to a callable in
\* the environment is accepted even when the name is absent from the
\* registry, and invokes that callable.
C22_EnvCallableIsCallTarget ==
    [][(PlainCall /\ ~Has(tools, node.value.func.id) /\ BoundToCallable)
        => /\ ~NotPermitted
           /\ LastCallIs(Get(state, node.value.func.id))]_vars

\* C22 (amended): a plain call is accepted only when its name is in the
\* registry.  A name bound to a callable in the environment but absent from
\* the registry is rejected with an InterpretorError before any argument is
\* evaluated, and the callable is not invoked; a name that is in the
\* registry invokes the callable of the registry, also when the
\* environment binds the same name to another callable.
C22_RegistryOnlyCallTarget ==
    [][PlainCall
        => /\ ~Has(tools, node.value.func.id)
                => NotPermitted /\ log' = log /\ envs' = envs /\ tools' = tools
           /\ (Has(tools, node.value.func.id) /\ Get(tools, node.value.func.id).t = "host"
                 /\ ~Raised(EvalArgs(node.value.args, GlobalEnv, Store))
                 /\ ~Raised(EvalKeywords(node.value.keywords, GlobalEnv,
                                         EvalArgs(node.value.args, GlobalEnv, Store).st)))
                => /\ ~NotPermitted
                   /\ LastCallIs(Get(tools, node.value.func.id))]_vars
\* foo(mark(2)) has been rejected although the state binds foo to a callable
C22_Witness ==
    /\ code = CallScript("foo") /\ pc = "raised" /\ idx = 2
    /\ Has(state, "foo") /\ Get(state, "foo").t = "host" /\ ~Has(tools, "foo")
    /\ error.cls = "InterpretorError"
    /\ log = <<[name |-> "mark", args |-> <<IntV(1)>>]>>
\* mark(1) has invoked the tool mark of the registry, the state binding the
\* name mark to another callable
C22_WitnessRegistryWins ==
    /\ code = CallScript("mark") /\ pc = "returned"
    /\ Has(state, "mark") /\ Get(state, "mark") = HostV("sideEffectA")
    /\ Get(tools, "mark") = HostV("mark")
    /\ \A i \in 1..Len(log) : log[i].name = "mark"

\* the objects and callables of the host among the values v
HostValues(env) ==
    {env[i].v : i \in {j \in 1..Len(env) : env[j].v.t \in {"host", "module", "method"}}}
\* the statement at hand binds the value of an attribute access
AttributeAccess ==
    /\ node.k \in {"Assign", "Expr"}
    /\ \/ node.value.k = "Attribute"
       \/ node.value.k = "Call" /\ node.value.func.k = "Attribute"

\* C23: attribute access apart, no statement gives the script an object or
\* a callable of the host that the caller did not put in the registry or in
\* the state: the host values bound in the state after a statement that is
\* not an attribute access were bound before it or are in the registry.
C23_NoHostValueButByAttribute ==
    [][(AtStatement /\ ~AttributeAccess)
        => HostValues(state') \subseteq (HostValues(state) \cup HostValues(tools))]_vars

\* the statement at hand is an assert whose condition and message evaluate
\* without failing; Condition and Message are their evaluations
AssertStatement ==
    /\ AtStatement /\ node.k = "Assert"
    /\ ~Raised(evaluate_ast(node.test, GlobalEnv, Store))
Condition == evaluate_ast(node.test, GlobalEnv, Store)
Message == evaluate_ast(node.msg, GlobalEnv, Condition.st)
MessageText == IF node.msg.k = "None" THEN "Assertion failed" ELSE Str(Message.v)
AssertFails == AssertStatement /\ ~Truthy(Condition.v, Condition.st)

\* C24 (as stated): an assert whose condition is false fails with an
\* assertion error that carries the evaluated message, and this is the
\* error the caller of evaluate receives; an assert whose condition is true
\* produces no value and changes nothing.
C24_CallerReceivesAssertionError ==
    [][AssertStatement
        => IF AssertFails
           THEN /\ pc' = "raised"
                /\ error'.cls = "AssertionError"
                /\ Contains(error'.msg, MessageText)
           ELSE /\ pc' = "loop" /\ result' = result
                /\ envs' = envs /\ objs' = objs /\ tools' = tools
                /\ log' = Condition.st.log]_vars

\* C24 (amended): an assert whose condition is false fails, inside the
\* script, with an AssertionError (not an InterpretorError) whose text is
\* the evaluated message, or "Assertion failed" without one; when the
\* script does not catch it, the caller of evaluate receives a plain
\* Exception, neither an AssertionError nor an InterpretorError, whose
\* message holds the line, the source text and the text of the assertion
\* error.  An assert whose condition is true produces no value, does not
\* evaluate its message and changes nothing beyond what evaluating the
\* condition does.
C24_CallerReceivesException ==
    [][AssertStatement
        => IF AssertFails
           THEN /\ Outcome.exc.cls = "AssertionError"
                /\ Outcome.exc.msg = MessageText
                /\ pc' = "raised"
                /\ error'.cls = "Exception"
                /\ Contains(error'.msg, MessageText)
                /\ Contains(error'.msg, "Error occurred at line " \o ToString(node.lineno)
                                            \o ": " \o code.lines[node.lineno])
                /\ envs' = envs
           ELSE /\ pc' = "loop" /\ result' = result
                /\ envs' = envs /\ objs' = objs /\ tools' = tools
                /\ log' = Condition.st.log]_vars
\* x = 0; assert x, 'x must be set' has reached the caller as an Exception
\* holding the message
C24_Witness ==
    /\ code = AssertScript("message", 0) /\ pc = "raised" /\ idx = 2
    /\ error.cls = "Exception" /\ Contains(error.msg, "x must be set")
    /\ log = <<>>

\* ------------------------------------------------------------------------
\* Augmented assignment
\* ------------------------------------------------------------------------
\* the statement about to run is an augmented assignment whose target and
\* value evaluate
Target == evaluate_ast(node.target, GlobalEnv, Store)
Value == evaluate_ast(node.value, GlobalEnv, Target.st)
AugStatement ==
    /\ AtStatement /\ node.k = "AugAssign"
    /\ ~Raised(Target) /\ ~Raised(Value)
Supported == node.op \in {"Add", "Sub", "Mult", "Div"}
Applied == Arith(node.op, Target.v, Value.v, Value.st)

\* C25 (as stated): augmented assignment supports only add, subtract,
\* multiply and divide; with any other operator it fails with an
\* unsupported-operator error and leaves every binding of the environment
\* unchanged.
C25_UnsupportedLeavesBindings ==
    [][AugStatement
        => IF Supported
           THEN IF Raised(Applied) THEN pc' = "raised"
                ELSE /\ pc' = "loop"
                     /\ Get(envs'[GlobalEnv], node.target.id) = Applied.v
           ELSE /\ pc' = "raised"
                /\ error'.cls = "InterpretorError"
                /\ Contains(error'.msg, "Augmented assignment")
                /\ Contains(error'.msg, "not supported")
                /\ envs' = envs]_vars

\* C25 (amended): augmented assignment supports only add, subtract,
\* multiply and divide, and stores the host's result under the target; with
\* any other operator it fails with an unsupported-operator error after it
\* has evaluated the target and the value, stores nothing, and leaves every
\* binding as that evaluation left it: unchanged unless the value holds a
\* list comprehension, whose target stays bound.
C25_UnsupportedStoresNothing ==
    [][AugStatement
        => IF Supported
           THEN IF Raised(Applied) THEN pc' = "raised" /\ envs' = Value.st.envs
                ELSE /\ pc' = "loop"
                     /\ Get(envs'[GlobalEnv], node.target.id) = Applied.v
                     /\ line_result' = Applied.v
           ELSE /\ pc' = "raised"
                /\ error'.cls = "InterpretorError"
                /\ Contains(error'.msg, "Augmented assignment")
                /\ Contains(error'.msg, "not supported")
                /\ envs' = Value.st.envs
                /\ node.value.k # "ListComp" => envs' = envs
                /\ node.value.k = "ListComp"
                     => /\ Has(envs'[GlobalEnv], node.value.generators[1].target.id)
                        /\ Get(envs'[GlobalEnv], node.target.id) = Get(state, node.target.id)]_vars
\* x = 7; x //= 2 has failed as unsupported and x is still 7
C25_Witness ==
    /\ code = AugScript("FloorDiv", "int")
    /\ pc = "raised"
    /\ error.cls = "InterpretorError"
    /\ Contains(error.msg, "not supported")
    /\ Get(state, "x") = IntV(7)
\* x = [1]; x %= [y for y in (2,)] has failed as unsupported with y bound
C25_WitnessComprehension ==
    /\ code = AugScript("Mod", "comp")
    /\ pc = "raised"
    /\ error.cls = "InterpretorError"
    /\ Has(state, "y") /\ Get(state, "y") = IntV(2)

\* ------------------------------------------------------------------------
\* Binary operators
\* ------------------------------------------------------------------------
\* the statement about to run binds the value of a binary operation whose
\* operands evaluate to integers
Left == evaluate_ast(node.value.left, GlobalEnv, Store)
Right == evaluate_ast(node.value.right, GlobalEnv, Left.st)
BinStatement ==
    /\ AtStatement /\ node.k = "Assign" /\ node.value.k = "BinOp"
    /\ node.target.k = "Name"
    /\ ~Raised(Left) /\ ~Raised(Right)
    /\ Left.v.t = "int" /\ Right.v.t = "int"
Bound_r == Get(envs'[GlobalEnv], node.target.id)
\* q is l // r: the quotient rounded toward negative infinity
IsFloor(q, l, r) == IF r > 0 THEN q * r <= l /\ l < (q + 1) * r
                    ELSE q * r >= l /\ l > (q + 1) * r
\* m is l % r: zero or of the sign of r, smaller than r in size, and l - m is
\* a multiple of r
IsModulo(m, l, r) ==
    /\ IF r > 0 THEN 0 <= m /\ m < r ELSE r < m /\ m <= 0
    /\ \E q \in {FloorDivI(l, r)} : l = q * r + m /\ IsFloor(q, l, r)
\* the value the text of an example has in the host
ExampleValue(text) ==
    CASE text = "2 + 3 * 4" -> 14 [] text = "2 * 3 + 4" -> 10 [] text = "(2 + 3) * 4" -> 20
      [] text = "2 ** 10" -> 1024 [] text = "7 // 2" -> 3 [] text = "7 % 2" -> 1
      [] text = "-7 ** 2" -> -49 [] text = "2 ** 3 ** 2" -> 512 [] text = "7 - 2 - 2" -> 3
      [] text = "-7 // 2" -> -4 [] text = "7 % -2" -> -1

\* C26: on integer operands add, subtract, multiply, floor-divide, modulo
\* and power return the result of the host's arithmetic, on the tree the
\* parser built with its precedence (2 + 3 * 4 = 14, 2 ** 10 = 1024,
\* 7 // 2 = 3, 7 % 2 = 1); floor-divide rounds toward negative infinity and
\* modulo takes the sign of the divisor; an operator outside add, subtract,
\* multiply, divide, floor-divide, modulo and power fails as unsupported.
C26_IntegerBinaryOperators ==
    [][/\ BinStatement
          => LET l == Left.v.n
                 r == Right.v.n
                 op == node.value.op
             IN  CASE op = "Add" -> pc' = "loop" /\ Bound_r = IntV(l + r)
                   [] op = "Sub" -> pc' = "loop" /\ Bound_r = IntV(l - r)
                   [] op = "Mult" -> pc' = "loop" /\ Bound_r = IntV(l * r)
                   [] op = "FloorDiv" /\ r # 0 ->
                        /\ pc' = "loop" /\ Bound_r.t = "int"
                        /\ IsFloor(Bound_r.n, l, r)
                   [] op = "Mod" /\ r # 0 ->
                        /\ pc' = "loop" /\ Bound_r.t = "int"
                        /\ IsModulo(Bound_r.n, l, r)
                   [] op = "Pow" /\ r >= 0 -> pc' = "loop" /\ Bound_r = IntV(PowI(l, r))
                   [] op \in {"FloorDiv", "Mod"} /\ r = 0 ->
                        pc' = "raised" /\ error'.cls = "Exception"
                   [] op \in {"Div", "Pow"} -> Outcome.exc.cls # "InterpretorError"
                   [] OTHER ->
                        /\ pc' = "raised"
                        /\ error'.cls = "InterpretorError"
                        /\ Contains(error'.msg, "Operator")
                        /\ Contains(error'.msg, "not supported")
                        /\ envs' = envs
       /\ AtStatement /\ (\E text \in ArithExamples : code = ExampleScript(text))
          => /\ pc' = "loop"
             /\ \A text \in ArithExamples :
                    code = ExampleScript(text)
                        => Get(envs'[GlobalEnv], "r") = IntV(ExampleValue(text))]_vars
\* a = -7; b = 2; r = a // b has bound r to -4
C26_Witness ==
    /\ code = BinScript("FloorDiv", -7, 2)
    /\ pc = "returned"
    /\ Get(state, "r") = IntV(-4)
\* r = 2 + 3 * 4 has bound r to 14
C26_WitnessPrecedence ==
    /\ code = ExampleScript("2 + 3 * 4")
    /\ pc = "returned"
    /\ Get(state, "r") = IntV(14)
\* a = 7; b = 2; r = a & b has failed as unsupported
C26_WitnessUnsupported ==
    /\ code = BinScript("BitAnd", 7, 2)
    /\ pc = "raised"
    /\ error.cls = "InterpretorError"
    /\ ~Has(state, "r")

\* ------------------------------------------------------------------------
\* List comprehension
\* ------------------------------------------------------------------------
CompStatement ==
    AtStatement /\ node.k = "Assign" /\ node.value.k = "ListComp" /\ code \in CompScripts
\* the first generator, its iterable evaluated where the statement starts,
\* and the values it produces
FirstGenerator == node.value.generators[1]
Source == evaluate_ast(FirstGenerator.iter, GlobalEnv, Store)
Values == Items(Source.v, Source.st)
\* the store with the target bound to the i-th value: the name, or the
\* names p and q of a tuple target to the first items of the value
BoundAt(i) ==
    IF FirstGenerator.target.k = "Tuple"
    THEN SetVar(SetVar(Source.st, GlobalEnv, "p", Values[i].xs[1]), GlobalEnv, "q",
                Values[i].xs[2])
    ELSE SetVar(Source.st, GlobalEnv, FirstGenerator.target.id, Values[i])
Element(i) == evaluate_ast(node.value.elt, GlobalEnv, BoundAt(i))

\* C27: a list comprehension is evaluated in single-generator form: only
\* the first generator is used, and a filter clause or a further generator
\* is ignored (its expressions are never evaluated, its target is never
\* bound); the result has one element per value of the first iterable, in
\* order, each the element expression evaluated with the target (the names
\* of a tuple target) bound to that value.
C27_FirstGeneratorOnly ==
    [][CompStatement
        => IF \E i \in 1..Len(Values) : Raised(Element(i))
           THEN pc' = "raised"
           ELSE /\ pc' = "loop"
                /\ Get(state', "r").t = "list"
                /\ objs'[Get(state', "r").a].xs = [i \in 1..Len(Values) |-> Element(i).v]
                /\ log' = log
                /\ ~Has(state', "w")]_vars
\* r = [v * 2 for v in [1, 2, 3, 4] if not v] has bound r to [2, 4, 6, 8]
C27_Witness ==
    /\ code = CompScript("filter", 4)
    /\ pc = "returned"
    /\ Has(state, "r")
    /\ objs[Get(state, "r").a].xs = <<IntV(2), IntV(4), IntV(6), IntV(8)>>
\* r = [v * 2 for v in [1, 2] for w in [5, 6]] has bound r to [2, 4]
C27_WitnessNested ==
    /\ code = CompScript("nested", 2)
    /\ pc = "returned"
    /\ objs[Get(state, "r").a].xs = <<IntV(2), IntV(4)>>
    /\ ~Has(state, "w")
\* r = [p + q for p, q in [(1, 2), (2, 3)]] has bound r to [3, 5]
C27_WitnessPairs ==
    /\ code = CompScript("pairs", 2)
    /\ pc = "returned"
    /\ objs[Get(state, "r").a].xs = <<IntV(3), IntV(5)>>

\* the target of the augmented assignment about to run is not bound, and its
\* read resolves to the closest bound name
ResolvedName == get_close_matches(node.target.id, Keys(state))[1]
AugOnUnbound ==
    /\ AugStatement /\ Supported /\ ~Raised(Applied)
    /\ ~Has(state, node.target.id)

\* C28: an augmented assignment n op= v stores its result under exactly the
\* name n; when n is not bound and its read resolves by closest match to
\* another bound name m, the statement does not fail as undefined: it
\* creates the binding n = (value of m) op v and leaves the binding of m,
\* and every other binding, unchanged.
C28_StoresUnderWrittenName ==
    [][/\ AugStatement /\ Supported /\ ~Raised(Applied)
          => /\ pc' = "loop"
             /\ Has(state', node.target.id)
             /\ Get(state', node.target.id) = Applied.v
             /\ \A i \in 1..Len(Value.st.envs[GlobalEnv]) :
                    \E b \in {Value.st.envs[GlobalEnv][i]} :
                        b.k # node.target.id => Has(state', b.k) /\ Get(state', b.k) = b.v
       /\ AugOnUnbound
          => /\ ResolvedName # node.target.id
             /\ Has(state, ResolvedName)
             /\ Target.v = Get(state, ResolvedName)
             /\ Get(state', node.target.id)
                    = Arith(node.op, Get(state, ResolvedName), Value.v, Value.st).v
             /\ Get(state', ResolvedName) = Get(state, ResolvedName)]_vars
\* ab = 7; abc += 2 has ended with abc = 9 and ab = 7
C28_Witness ==
    /\ code = AugScript("Add", "close")
    /\ pc = "returned"
    /\ Has(state, "abc") /\ Get(state, "abc") = IntV(9)
    /\ Get(state, "ab") = IntV(7)
\* with abcd = 1 bound before, ab = 7; abc += 2 has read abcd: abc = 3
C28_WitnessClosest ==
    /\ code = AugScript("Add", "close")
    /\ pc = "returned"
    /\ Has(state, "abcd") /\ Get(state, "abcd") = IntV(1)
    /\ Has(state, "abc") /\ Get(state, "abc") = IntV(3)
    /\ Get(state, "ab") = IntV(7)

\* ------------------------------------------------------------------------
\* Functions defined inside functions
\* ------------------------------------------------------------------------
\* the statement about to run calls, by its plain name, a function of the
\* script whose body holds a function definition
NamedCall ==
    /\ AtStatement /\ node.k \in {"Expr", "Assign"}
    /\ node.value.k = "Call" /\ node.value.func.k = "Name"
    /\ Has(tools, node.value.func.id)
    /\ Get(tools, node.value.func.id).t = "func"
InnerDefs == {j \in 1..Len(Callee.body) : Callee.body[j].k = "FunctionDef"}
NestingCall == NamedCall /\ InnerDefs # {}
InnerDef == Callee.body[CHOOSE j \in InnerDefs : TRUE]
\* the statement about to run calls, by its plain name, a function that was
\* defined in the private environment of a call
CallOfInner == NamedCall /\ Callee.state # GlobalEnv

\* C29: a function defined inside the body of another function of the
\* script is bound as a variable only in the private environment of that
\* call (no environment that existed before the call changes), yet it is
\* added to the shared registry, where it replaces a tool of the same name;
\* the definition of the enclosing function alone registers nothing; after
\* the enclosing call has returned, the inner function is called by its
\* plain name from the top level and from another function, and the host
\* tool it replaced is not called.
C29_InnerFunctionRegistered ==
    [][/\ NestingCall
          => /\ pc' = "loop"
             /\ Has(tools', InnerDef.name)
             /\ \E inner \in {Get(tools', InnerDef.name)} :
                  /\ inner.t = "func"
                  /\ inner.f > Len(funcs)
                  /\ funcs'[inner.f].name = InnerDef.name
                  /\ funcs'[inner.f].body = InnerDef.body
                  /\ funcs'[inner.f].state > Len(envs)
                  /\ Has(envs'[funcs'[inner.f].state], InnerDef.name)
                  /\ Get(envs'[funcs'[inner.f].state], InnerDef.name) = inner
             /\ \A e \in 1..Len(envs) : envs'[e] = envs[e]
             /\ \A i \in 1..Len(tools) :
                    tools[i].k # InnerDef.name => Get(tools', tools[i].k) = tools[i].v
       /\ (AtStatement /\ node.k = "FunctionDef")
          => \A j \in 1..Len(node.body) :
                (node.body[j].k = "FunctionDef" /\ node.body[j].name # node.name)
                    => /\ Has(tools', node.body[j].name) = Has(tools, node.body[j].name)
                       /\ Has(tools, node.body[j].name)
                            => Get(tools', node.body[j].name) = Get(tools, node.body[j].name)
       /\ CallOfInner
          => /\ pc' = "loop"
             /\ log' = log
             /\ node.k = "Assign"
             /\ Get(state', node.target.id)
                    = evaluate_ast(Callee.body[1].value, Callee.state, Store).v
       /\ (AtStatement /\ code = NestedScript("inside") /\ node.k = "Assign")
          => pc' = "loop" /\ Get(state', "r") = IntV(5)]_vars
\* mark(1); def g(): def mark(v): return 9 ...; g(); r = mark(2) has ended
\* with r = 9, the host tool called once, and mark not bound in the state
C29_Witness ==
    /\ code = NestedScript("tool")
    /\ pc = "returned"
    /\ Has(state, "r") /\ Get(state, "r") = IntV(9)
    /\ ~Has(state, "mark")
    /\ Get(tools, "mark").t = "func"
    /\ log = <<[name |-> "mark", args |-> <<IntV(1)>>]>>
\* def g(): def f(): return 5 ...; def h(): return f(); g(); r = h() has
\* ended with r = 5 and the binding f = 1 of the caller untouched
C29_WitnessFromFunction ==
    /\ code = NestedScript("inside")
    /\ pc = "returned"
    /\ Get(state, "r") = IntV(5)
    /\ Has(state, "f") /\ Get(state, "f") = IntV(1)

\* ------------------------------------------------------------------------
\* The value of and/or
\* ------------------------------------------------------------------------
\* the statement about to run binds the value of an and/or expression whose
\* operands evaluate
Operands == EvalList(node.value.values, GlobalEnv, Store)
BoolStatement ==
    /\ AtStatement /\ node.k = "Assign" /\ node.value.k = "BoolOp"
    /\ node.value.op \in {"And", "Or"}
    /\ ~Raised(Operands)
\* the literals the host takes for true
TruthyTexts == {"5", "'s'"}
AllTruthy == \A i \in 1..Len(Operands.v) : Truthy(Operands.v[i], Operands.st)
SomeTruthy == \E i \in 1..Len(Operands.v) : Truthy(Operands.v[i], Operands.st)

\* C30: the value of an and/or expression is always the boolean true or
\* false, true for and exactly when every operand is truthy and for or
\* exactly when at least one is, never the value of an operand: x = 0 or 5
\* binds x to true, not to 5.
C30_BoolOpValueIsBoolean ==
    [][BoolStatement
        => /\ pc' = "loop"
           /\ Get(state', node.target.id).t = "bool"
           /\ Get(state', node.target.id)
                = BoolV(IF node.value.op = "And" THEN AllTruthy ELSE SomeTruthy)
           /\ \A op \in {"And", "Or"}, n \in 2..(MaxOperands + 1) :
                \A texts \in [1..n -> LiteralTexts] :
                    code = LiteralBoolScript(op, texts)
                        => Get(state', "x")
                             = BoolV(IF op = "And" THEN \A i \in 1..n : texts[i] \in TruthyTexts
                                     ELSE \E i \in 1..n : texts[i] \in TruthyTexts)]_vars
\* x = 0 or 5 has bound x to true
C30_Witness ==
    /\ code = LiteralBoolScript("Or", <<"0", "5">>)
    /\ pc = "returned"
    /\ Has(state, "x") /\ Get(state, "x") = BoolV(TRUE)
    /\ Get(state, "x") # IntV(5)
\* x = 5 and 's' and 0 has bound x to false
C30_WitnessAnd ==
    /\ code = LiteralBoolScript("And", <<"5", "'s'", "0">>)
    /\ pc = "returned"
    /\ Get(state, "x") = BoolV(FALSE)

====
